---- MODULE Spec2Model ----
(***************************************************************************)
(* AutoCrate geometry engine: plywood splicing, cleat layout, lumber       *)
(* tables, floorboard layout and the NXGenerator composer.                 *)
(*                                                                         *)
(* Lengths are exact multiples of 1/16 inch, so that                       *)
(* every constant of the source (0.125, 0.75, 1.75, 3.625, 7.25, ...) and  *)
(* every half of an input given in eighths of an inch is an integer.       *)
(* Quotients that need not be integers (skid spacing, cleat spacing) are   *)
(* exact rationals <<numerator, denominator>> in lowest terms.             *)
(***************************************************************************)
EXTENDS Integers, Sequences, FiniteSets, TLC

VARIABLES panel, splice, cleat, config, floor, gen, instances, call, studio

vars == <<panel, splice, cleat, config, floor, gen, instances, call, studio>>

\* the value of a result that has not been computed
Null == [op |-> "null"]

\* n inches
In(n) == 16 * n

\* n eighths of an inch
Eighths(n) == 2 * n

----------------------------------------------------------------------------
(* Arithmetic of the source language *)

Abs(x) == IF x < 0 THEN -x ELSE x

Min(a, b) == IF a <= b THEN a ELSE b

Max(a, b) == IF a >= b THEN a ELSE b

\* Math.ceil(a / b) for b > 0
Ceil(a, b) == -((-a) \div b)

RECURSIVE GCD(_, _)
GCD(a, b) == IF b = 0 THEN a ELSE GCD(b, a % b)

\* the rational n / d (d > 0) in lowest terms
Rat(n, d) == LET g == GCD(Abs(n), d) IN <<n \div g, d \div g>>

RInt(i) == <<i, 1>>

RAdd(p, q) == Rat(p[1] * q[2] + q[1] * p[2], p[2] * q[2])

RNeg(p) == <<-p[1], p[2]>>

RSub(p, q) == RAdd(p, RNeg(q))

RLe(p, q) == p[1] * q[2] <= q[1] * p[2]

RLt(p, q) == p[1] * q[2] < q[1] * p[2]

\* the concatenation of the sequences of ss, in order (by halves, so that the
\* depth of the evaluation stays logarithmic in Len(ss))
Flatten(ss) ==
    LET RECURSIVE Concat(_, _, _)
        Concat(s, lo, hi) ==
            IF lo > hi THEN <<>>
            ELSE IF lo = hi THEN s[lo]
            ELSE Concat(s, lo, (lo + hi) \div 2) \o Concat(s, (lo + hi) \div 2 + 1, hi)
    IN CHOOSE r \in {Concat(s, 1, Len(s)) : s \in {<<>> \o ss}} : TRUE

RECURSIVE SumSeq(_)
SumSeq(s) == IF s = <<>> THEN 0 ELSE Head(s) + SumSeq(Tail(s))

Range(s) == {s[i] : i \in DOMAIN s}

----------------------------------------------------------------------------
(* PlywoodSplicer *)

MAX_SHEET_WIDTH == In(48)

MAX_SHEET_HEIGHT == In(96)

SPLICE_WIDTH == Eighths(1)

SheetWidthFor(useRotated) == IF useRotated THEN MAX_SHEET_HEIGHT ELSE MAX_SHEET_WIDTH

\* mutant: the sheet height is not swapped for the rotated orientation
SheetHeightFor_unrotated(useRotated) == MAX_SHEET_HEIGHT

SheetHeightFor(useRotated) == IF useRotated THEN MAX_SHEET_WIDTH ELSE MAX_SHEET_HEIGHT

SectionId(panelName, vSection, hSection) ==
    panelName \o "_S" \o ToString(vSection) \o "_" \o ToString(hSection)

\* mutant: the rows above the partial first row are not shifted by the remainder
SpliceSection_noShift(panelName, panelWidth, panelHeight, useRotated, vSection, hSection, sheetId) ==
    LET sheetWidth == SheetWidthFor(useRotated)
        sheetHeight == SheetHeightFor(useRotated)
        remainderHeight == panelHeight % sheetHeight
        x == hSection * sheetWidth
        firstPartial == vSection = 0 /\ remainderHeight > 0
        y == vSection * sheetHeight
        sectionHeight == IF firstPartial THEN remainderHeight
                         ELSE Min(sheetHeight, panelHeight - y)
        sectionWidth == Min(sheetWidth, panelWidth - x)
    IN [id |-> SectionId(panelName, vSection, hSection), x |-> x, y |-> y,
        width |-> sectionWidth, height |-> sectionHeight, sheetId |-> sheetId]

\* the section pushed in iteration (vSection, hSection) of the nested loop
SpliceSection(panelName, panelWidth, panelHeight, useRotated, vSection, hSection, sheetId) ==
    LET sheetWidth == SheetWidthFor(useRotated)
        sheetHeight == SheetHeightFor(useRotated)
        remainderHeight == panelHeight % sheetHeight
        x == hSection * sheetWidth
        firstPartial == vSection = 0 /\ remainderHeight > 0
        adjustedSection == IF remainderHeight > 0 THEN vSection - 1 ELSE vSection
        y == IF firstPartial THEN 0 ELSE remainderHeight + adjustedSection * sheetHeight
        sectionHeight == IF firstPartial THEN remainderHeight
                         ELSE Min(sheetHeight, panelHeight - y)
        sectionWidth == Min(sheetWidth, panelWidth - x)
    IN [id |-> SectionId(panelName, vSection, hSection), x |-> x, y |-> y,
        width |-> sectionWidth, height |-> sectionHeight, sheetId |-> sheetId]

\* mutant: a vertical splice is recorded after the rightmost section as well
SpliceSplices_everyColumn(panelName, panelWidth, panelHeight, useRotated, vSection, hSection) ==
    LET sheetWidth == SheetWidthFor(useRotated)
        sheetHeight == SheetHeightFor(useRotated)
        horizontalSections == Ceil(panelWidth, sheetWidth)
        verticalSections == Ceil(panelHeight, sheetHeight)
        remainderHeight == panelHeight % sheetHeight
        s == SpliceSection(panelName, panelWidth, panelHeight, useRotated, vSection, hSection, 0)
        vert == IF hSection < horizontalSections
                THEN <<[x |-> (hSection + 1) * sheetWidth - SPLICE_WIDTH, y |-> s.y,
                        orientation |-> "vertical"]>>
                ELSE <<>>
        horiz == IF vSection = 0 /\ verticalSections > 1 /\ remainderHeight > 0
                 THEN <<[x |-> s.x, y |-> remainderHeight - SPLICE_WIDTH,
                         orientation |-> "horizontal"]>>
                 ELSE IF vSection > 0 /\ vSection < verticalSections - 1
                 THEN <<[x |-> s.x, y |-> s.y + s.height - SPLICE_WIDTH,
                         orientation |-> "horizontal"]>>
                 ELSE <<>>
    IN vert \o horiz

\* the splices pushed in iteration (vSection, hSection), in push order
SpliceSplices(panelName, panelWidth, panelHeight, useRotated, vSection, hSection) ==
    LET sheetWidth == SheetWidthFor(useRotated)
        sheetHeight == SheetHeightFor(useRotated)
        horizontalSections == Ceil(panelWidth, sheetWidth)
        verticalSections == Ceil(panelHeight, sheetHeight)
        remainderHeight == panelHeight % sheetHeight
        s == SpliceSection(panelName, panelWidth, panelHeight, useRotated, vSection, hSection, 0)
        vert == IF hSection < horizontalSections - 1
                THEN <<[x |-> (hSection + 1) * sheetWidth - SPLICE_WIDTH, y |-> s.y,
                        orientation |-> "vertical"]>>
                ELSE <<>>
        horiz == IF vSection = 0 /\ verticalSections > 1 /\ remainderHeight > 0
                 THEN <<[x |-> s.x, y |-> remainderHeight - SPLICE_WIDTH,
                         orientation |-> "horizontal"]>>
                 ELSE IF vSection > 0 /\ vSection < verticalSections - 1
                 THEN <<[x |-> s.x, y |-> s.y + s.height - SPLICE_WIDTH,
                         orientation |-> "horizontal"]>>
                 ELSE <<>>
    IN vert \o horiz

calculateSpliceLayout(panelWidth, panelHeight, panelName, useRotated) ==
    LET sheetWidth == SheetWidthFor(useRotated)
        sheetHeight == SheetHeightFor(useRotated)
        horizontalSections == Ceil(panelWidth, sheetWidth)
        verticalSections == Ceil(panelHeight, sheetHeight)
        count == IF horizontalSections > 0 /\ verticalSections > 0
                 THEN horizontalSections * verticalSections ELSE 0
        vOf(k) == (k - 1) \div horizontalSections
        hOf(k) == (k - 1) % horizontalSections
    IN [panelName |-> panelName,
        panelWidth |-> panelWidth,
        panelHeight |-> panelHeight,
        sheets |-> [k \in 1..count |->
                      SpliceSection(panelName, panelWidth, panelHeight, useRotated, vOf(k), hOf(k), k - 1)],
        splices |-> Flatten([k \in 1..count |->
                      SpliceSplices(panelName, panelWidth, panelHeight, useRotated, vOf(k), hOf(k))]),
        sheetCount |-> count,
        isRotated |-> useRotated]

\* mutant: rotation also chosen when the sheet count is exactly halved
calculateOptimizedSpliceLayout_le(panelWidth, panelHeight, panelName, allowRotation) ==
    LET normalLayout == calculateSpliceLayout(panelWidth, panelHeight, panelName, FALSE)
        rotatedLayout == calculateSpliceLayout(panelWidth, panelHeight, panelName, TRUE)
    IN IF ~allowRotation THEN normalLayout
       ELSE IF rotatedLayout.sheetCount = 1 /\ Len(rotatedLayout.splices) = 0
            THEN rotatedLayout
       ELSE IF 2 * rotatedLayout.sheetCount <= normalLayout.sheetCount
            THEN rotatedLayout
       ELSE normalLayout

calculateOptimizedSpliceLayout(panelWidth, panelHeight, panelName, allowRotation) ==
    LET normalLayout == calculateSpliceLayout(panelWidth, panelHeight, panelName, FALSE)
        rotatedLayout == calculateSpliceLayout(panelWidth, panelHeight, panelName, TRUE)
    IN IF ~allowRotation THEN normalLayout
       ELSE IF rotatedLayout.sheetCount = 1 /\ Len(rotatedLayout.splices) = 0
            THEN rotatedLayout
       \* rotatedLayout.sheetCount < normalLayout.sheetCount * 0.5
       ELSE IF 2 * rotatedLayout.sheetCount < normalLayout.sheetCount
            THEN rotatedLayout
       ELSE normalLayout

----------------------------------------------------------------------------
(* CleatCalculator *)

CLEAT_WIDTH == In(3) + Eighths(4)

CLEAT_THICKNESS == Eighths(6)

MAX_CLEAT_SPACING == In(24)

Includes(panelName, part) ==
    CASE part = "FRONT" -> panelName = "FRONT_PANEL"
      [] part = "BACK" -> panelName = "BACK_PANEL"
      [] part = "LEFT_END" -> panelName = "LEFT_END_PANEL"
      [] part = "RIGHT_END" -> panelName = "RIGHT_END_PANEL"
      [] part = "TOP" -> panelName = "TOP_PANEL"
      [] OTHER -> FALSE

\* position.toUpperCase() for the four perimeter positions
ToUpperCase(position) ==
    CASE position = "top" -> "TOP"
      [] position = "bottom" -> "BOTTOM"
      [] position = "left" -> "LEFT"
      [] position = "right" -> "RIGHT"

createPerimeterCleat(panelName, orientation, position, x, y, length) ==
    [id |-> panelName \o "_CLEAT_" \o ToUpperCase(position),
     type |-> "perimeter",
     orientation |-> orientation,
     position |-> position,
     x |-> RInt(x),
     y |-> RInt(y),
     length |-> length,
     width |-> CLEAT_WIDTH,
     thickness |-> CLEAT_THICKNESS]

\* mutant: Math.floor in place of Math.ceil
IntermediateCleatCount_floor(panelWidth) ==
    ((panelWidth - 2 * CLEAT_WIDTH) \div MAX_CLEAT_SPACING) - 1

\* availableWidth and minCleats of calculateIntermediateVerticalCleats

IntermediateCleatCount(panelWidth) ==
    Ceil(panelWidth - 2 * CLEAT_WIDTH, MAX_CLEAT_SPACING) - 1

calculateIntermediateVerticalCleats(panelName, panelWidth, panelHeight, isSide, isRotated) ==
    LET availableWidth == panelWidth - 2 * CLEAT_WIDTH
        minCleats == IntermediateCleatCount(panelWidth)
        \* x = CLEAT_WIDTH + (i + 1) * spacing - CLEAT_WIDTH / 2,
        \* spacing = availableWidth / (minCleats + 1)
        xOf(i) == RAdd(RInt(CLEAT_WIDTH - CLEAT_WIDTH \div 2),
                       Rat((i + 1) * availableWidth, minCleats + 1))
        yStart == IF isSide THEN 0 ELSE CLEAT_WIDTH
        length == IF isSide THEN panelHeight ELSE panelHeight - 2 * CLEAT_WIDTH
    IN IF minCleats > 0
       THEN [k \in 1..minCleats |->
               [id |-> panelName \o "_CLEAT_VERT_" \o ToString(k),
                type |-> "intermediate",
                orientation |-> "vertical",
                position |-> "intermediate",
                x |-> xOf(k - 1),
                y |-> RInt(yStart),
                length |-> length,
                width |-> CLEAT_WIDTH,
                thickness |-> CLEAT_THICKNESS]]
       ELSE <<>>

calculateSpliceCleats(panelName, panelWidth, panelHeight, splicePositions, isSide) ==
    [k \in 1..Len(splicePositions) |->
       LET sp == splicePositions[k] IN
       IF sp.orientation = "vertical"
       THEN [id |-> panelName \o "_CLEAT_SPLICE_V_" \o ToString(k - 1),
             type |-> "splice",
             orientation |-> "vertical",
             position |-> "intermediate",
             x |-> RInt(sp.x - CLEAT_WIDTH \div 2),
             y |-> RInt(IF isSide THEN 0 ELSE CLEAT_WIDTH),
             length |-> IF isSide THEN panelHeight ELSE panelHeight - 2 * CLEAT_WIDTH,
             width |-> CLEAT_WIDTH,
             thickness |-> CLEAT_THICKNESS]
       ELSE [id |-> panelName \o "_CLEAT_SPLICE_H_" \o ToString(k - 1),
             type |-> "splice",
             orientation |-> "horizontal",
             position |-> "intermediate",
             x |-> RInt(IF isSide THEN CLEAT_WIDTH ELSE 0),
             y |-> RInt(sp.y - CLEAT_WIDTH \div 2),
             length |-> IF isSide THEN panelWidth - 2 * CLEAT_WIDTH ELSE panelWidth,
             width |-> CLEAT_WIDTH,
             thickness |-> CLEAT_THICKNESS]]

calculateCleatLayout(panelName, panelWidth, panelHeight, splicePositions, isRotated) ==
    LET isFrontBack == Includes(panelName, "FRONT") \/ Includes(panelName, "BACK")
        isSide == Includes(panelName, "LEFT_END") \/ Includes(panelName, "RIGHT_END")
        isTop == Includes(panelName, "TOP")
        perimeter ==
            IF isFrontBack \/ isTop
            THEN << createPerimeterCleat(panelName, "horizontal", "bottom", 0, 0, panelWidth),
                    createPerimeterCleat(panelName, "horizontal", "top", 0,
                                         panelHeight - CLEAT_WIDTH, panelWidth),
                    createPerimeterCleat(panelName, "vertical", "left", 0, CLEAT_WIDTH,
                                         panelHeight - 2 * CLEAT_WIDTH),
                    createPerimeterCleat(panelName, "vertical", "right",
                                         panelWidth - CLEAT_WIDTH, CLEAT_WIDTH,
                                         panelHeight - 2 * CLEAT_WIDTH) >>
            ELSE IF isSide
            THEN << createPerimeterCleat(panelName, "vertical", "left", 0, 0, panelHeight),
                    createPerimeterCleat(panelName, "vertical", "right",
                                         panelWidth - CLEAT_WIDTH, 0, panelHeight),
                    createPerimeterCleat(panelName, "horizontal", "bottom", CLEAT_WIDTH, 0,
                                         panelWidth - 2 * CLEAT_WIDTH),
                    createPerimeterCleat(panelName, "horizontal", "top", CLEAT_WIDTH,
                                         panelHeight - CLEAT_WIDTH,
                                         panelWidth - 2 * CLEAT_WIDTH) >>
            ELSE <<>>
    IN [panelName |-> panelName,
        panelWidth |-> panelWidth,
        panelHeight |-> panelHeight,
        cleats |-> perimeter
                   \o calculateIntermediateVerticalCleats(panelName, panelWidth, panelHeight,
                                                          isSide, isRotated)
                   \o calculateSpliceCleats(panelName, panelWidth, panelHeight,
                                            splicePositions, isSide),
        isRotated |-> isRotated]

----------------------------------------------------------------------------
(* NXGenerator: lumber tables *)

\* this.config.materials.availableLumber when the caller leaves it out
Undefined == {"undefined"}

AllLumber == {"2x6", "2x8", "2x10", "2x12"}

InternalWidth(cfg) == cfg.product.width + 2 * cfg.clearances.side

InternalLength(cfg) == cfg.product.length + 2 * cfg.clearances.end

InternalHeight(cfg) == cfg.product.height + cfg.clearances.top

\* mutant: the 4x4 band excludes its upper threshold
getSkidDimensions_exclusive(cfg) ==
    LET weight == cfg.product.weight
        allow3x4 == cfg.materials.allow3x4Lumber
    IN IF weight <= 500 /\ allow3x4
       THEN [height |-> In(3) + Eighths(4), width |-> In(2) + Eighths(4), nominal |-> "3x4"]
       ELSE IF weight < 4500
       THEN [height |-> In(3) + Eighths(4), width |-> In(3) + Eighths(4), nominal |-> "4x4"]
       ELSE IF weight <= 20000
       THEN [height |-> In(3) + Eighths(4), width |-> In(5) + Eighths(4), nominal |-> "4x6"]
       ELSE IF weight <= 40000
       THEN [height |-> In(5) + Eighths(4), width |-> In(5) + Eighths(4), nominal |-> "6x6"]
       ELSE [height |-> In(7) + Eighths(2), width |-> In(7) + Eighths(2), nominal |-> "8x8"]

getSkidDimensions(cfg) ==
    LET weight == cfg.product.weight
        allow3x4 == cfg.materials.allow3x4Lumber
    IN IF weight <= 500 /\ allow3x4
       THEN [height |-> In(3) + Eighths(4), width |-> In(2) + Eighths(4), nominal |-> "3x4"]
       ELSE IF weight <= 4500
       THEN [height |-> In(3) + Eighths(4), width |-> In(3) + Eighths(4), nominal |-> "4x4"]
       ELSE IF weight <= 20000
       THEN [height |-> In(3) + Eighths(4), width |-> In(5) + Eighths(4), nominal |-> "4x6"]
       ELSE IF weight <= 40000
       THEN [height |-> In(5) + Eighths(4), width |-> In(5) + Eighths(4), nominal |-> "6x6"]
       ELSE IF weight <= 60000
       THEN [height |-> In(7) + Eighths(2), width |-> In(7) + Eighths(2), nominal |-> "8x8"]
       ELSE [height |-> In(7) + Eighths(2), width |-> In(7) + Eighths(2), nominal |-> "8x8"]

getSkidSpacing(cfg) ==
    LET weight == cfg.product.weight
        skidDims == getSkidDimensions(cfg)
    IN IF skidDims.nominal = "3x4" \/ skidDims.nominal = "4x4"
       THEN [maxSpacing |-> In(30), count |-> 3]
       ELSE IF skidDims.nominal = "4x6"
       THEN IF weight <= 6000 THEN [maxSpacing |-> In(41), count |-> 3]
            ELSE IF weight <= 12000 THEN [maxSpacing |-> In(28), count |-> 4]
            ELSE IF weight <= 20000 THEN [maxSpacing |-> In(24), count |-> 4]
            ELSE [maxSpacing |-> In(24), count |-> 4]
       ELSE IF skidDims.nominal = "6x6"
       THEN IF weight <= 30000 THEN [maxSpacing |-> In(24), count |-> 4]
            ELSE [maxSpacing |-> In(20), count |-> 5]
       ELSE IF skidDims.nominal = "8x8"
       THEN [maxSpacing |-> In(24), count |-> 5]
       ELSE [maxSpacing |-> In(30), count |-> 3]

\* mutant: Math.floor in place of Math.ceil for the number of gaps
getSkidCount_floor(cfg) ==
    LET spacingInfo == getSkidSpacing(cfg)
        internalWidth == InternalWidth(cfg)
        skidDims == getSkidDimensions(cfg)
        availableSpace == internalWidth - skidDims.width
        numberOfGaps == availableSpace \div spacingInfo.maxSpacing
        requiredCount == numberOfGaps + 1
    IN IF internalWidth <= spacingInfo.maxSpacing + skidDims.width
       THEN 2
       ELSE Max(requiredCount, spacingInfo.count)

\* mutant: the table's minimum count is not applied
getSkidCount_requiredOnly(cfg) ==
    LET spacingInfo == getSkidSpacing(cfg)
        internalWidth == InternalWidth(cfg)
        skidDims == getSkidDimensions(cfg)
        availableSpace == internalWidth - skidDims.width
        numberOfGaps == Ceil(availableSpace, spacingInfo.maxSpacing)
        requiredCount == numberOfGaps + 1
    IN IF internalWidth <= spacingInfo.maxSpacing + skidDims.width
       THEN 2
       ELSE requiredCount

getSkidCount(cfg) ==
    LET spacingInfo == getSkidSpacing(cfg)
        internalWidth == InternalWidth(cfg)
        skidDims == getSkidDimensions(cfg)
        availableSpace == internalWidth - skidDims.width
        numberOfGaps == Ceil(availableSpace, spacingInfo.maxSpacing)
        requiredCount == numberOfGaps + 1
    IN IF internalWidth <= spacingInfo.maxSpacing + skidDims.width
       THEN 2
       ELSE Max(requiredCount, spacingInfo.count)

\* lumberOptions of getFloorboardDimensions; limited = FALSE stands for
\* maxWeight: Infinity, maxSpan: Infinity
FloorboardRatings ==
    << [nominal |-> "2x6", width |-> In(5) + Eighths(4), thickness |-> In(1) + Eighths(4),
        limited |-> TRUE, maxWeight |-> 2000, maxSpan |-> In(24)],
       [nominal |-> "2x8", width |-> In(7) + Eighths(2), thickness |-> In(1) + Eighths(4),
        limited |-> TRUE, maxWeight |-> 4000, maxSpan |-> In(36)],
       [nominal |-> "2x10", width |-> In(9) + Eighths(2), thickness |-> In(1) + Eighths(4),
        limited |-> TRUE, maxWeight |-> 8000, maxSpan |-> In(48)],
       [nominal |-> "2x12", width |-> In(11) + Eighths(2), thickness |-> In(1) + Eighths(4),
        limited |-> FALSE, maxWeight |-> 0, maxSpan |-> 0] >>

\* lumberOptions of getFloorboardLayout
LumberOptions ==
    << [nominal |-> "2x6", width |-> In(5) + Eighths(4), thickness |-> In(1) + Eighths(4)],
       [nominal |-> "2x8", width |-> In(7) + Eighths(2), thickness |-> In(1) + Eighths(4)],
       [nominal |-> "2x10", width |-> In(9) + Eighths(2), thickness |-> In(1) + Eighths(4)],
       [nominal |-> "2x12", width |-> In(11) + Eighths(2), thickness |-> In(1) + Eighths(4)] >>

\* materials.availableLumber || ['2x6', '2x8', '2x10', '2x12']
AvailableLumber(cfg) ==
    IF cfg.materials.availableLumber = Undefined THEN AllLumber
    ELSE cfg.materials.availableLumber

\* Array.prototype.sort((a, b) => Key(a) - Key(b)): ascending in the key and
\* stable; each element is inserted after the elements whose key is not greater
RECURSIVE InsertSorted(_, _)
InsertSorted(sorted, e) ==
    IF sorted = <<>> THEN <<e>>
    ELSE IF e.key < Head(sorted).key THEN <<e>> \o sorted
    ELSE <<Head(sorted)>> \o InsertSorted(Tail(sorted), e)

RECURSIVE SortKeyed(_)
SortKeyed(s) ==
    IF s = <<>> THEN <<>>
    ELSE InsertSorted(SortKeyed(SubSeq(s, 1, Len(s) - 1)), s[Len(s)])

\* sort((a, b) => a.width - b.width)
SortByWidthAscending(s) ==
    LET sorted == SortKeyed([i \in DOMAIN s |-> [key |-> s[i].width, val |-> s[i]]])
    IN [i \in DOMAIN s |-> sorted[i].val]

\* mutant: the narrowest first
SortByWidthDescending_ascending(s) == SortByWidthAscending(s)

\* sort((a, b) => b.width - a.width)
SortByWidthDescending(s) ==
    LET sorted == SortKeyed([i \in DOMAIN s |-> [key |-> -s[i].width, val |-> s[i]]])
    IN [i \in DOMAIN s |-> sorted[i].val]

\* sort((a, b) => a.position - b.position)
SortByPosition(s) ==
    LET sorted == SortKeyed([i \in DOMAIN s |-> [key |-> s[i].position, val |-> s[i]]])
    IN [i \in DOMAIN s |-> sorted[i].val]

\* mutant: when no option qualifies the narrowest available option is returned
getFloorboardDimensions_narrowest(cfg) ==
    LET weight == cfg.product.weight
        internalLength == InternalLength(cfg)
        availableLumber == AvailableLumber(cfg)
        availableOptions == SelectSeq(FloorboardRatings, LAMBDA o : o.nominal \in availableLumber)
        sortedOptions == SortByWidthAscending(availableOptions)
        fitting == SelectSeq(sortedOptions,
                             LAMBDA o : \/ ~o.limited
                                        \/ weight <= o.maxWeight /\ internalLength <= o.maxSpan)
        chosen == IF fitting # <<>> THEN Head(fitting) ELSE sortedOptions[1]
    IN IF Len(availableOptions) = 0
       THEN [width |-> In(5) + Eighths(4), thickness |-> In(1) + Eighths(4), nominal |-> "2x6"]
       ELSE [width |-> chosen.width, thickness |-> chosen.thickness, nominal |-> chosen.nominal]

getFloorboardDimensions(cfg) ==
    LET weight == cfg.product.weight
        internalLength == InternalLength(cfg)
        availableLumber == AvailableLumber(cfg)
        availableOptions == SelectSeq(FloorboardRatings, LAMBDA o : o.nominal \in availableLumber)
        sortedOptions == SortByWidthAscending(availableOptions)
        fitting == SelectSeq(sortedOptions,
                             LAMBDA o : \/ ~o.limited
                                        \/ weight <= o.maxWeight /\ internalLength <= o.maxSpan)
        chosen == IF fitting # <<>> THEN Head(fitting) ELSE sortedOptions[Len(sortedOptions)]
    IN IF Len(availableOptions) = 0
       THEN [width |-> In(5) + Eighths(4), thickness |-> In(1) + Eighths(4), nominal |-> "2x6"]
       ELSE [width |-> chosen.width, thickness |-> chosen.thickness, nominal |-> chosen.nominal]

----------------------------------------------------------------------------
(* NXGenerator.getFloorboardLayout *)

\* mutant: no gap between boards
gapBetweenBoards_none == Eighths(0)

gapBetweenBoards == Eighths(1)

\* mutant: any positive leftover is cut as a custom board
MinCustomWidth_none == Eighths(0)

\* the 0.25 in threshold of the fill loop and of the custom board
MinCustomWidth == Eighths(2)

\* the layout.length < 40 limit of the fill loop
MaxBoards == 40

\* the while loop of lines 239-284
RECURSIVE GreedyFill(_, _, _, _)
GreedyFill(availableOptions, layout, remainingLength, currentPosition) ==
    IF ~(remainingLength > MinCustomWidth /\ Len(layout) < MaxBoards) THEN layout
    ELSE LET fits == SelectSeq(availableOptions,
                               LAMBDA o : o.width + gapBetweenBoards <= remainingLength)
         IN IF fits # <<>>
            THEN LET lumber == Head(fits)
                     boardWithGap == lumber.width + gapBetweenBoards
                 IN GreedyFill(availableOptions,
                               Append(layout, [nominal |-> lumber.nominal,
                                               width |-> lumber.width,
                                               thickness |-> lumber.thickness,
                                               position |-> currentPosition,
                                               isCustom |-> FALSE]),
                               remainingLength - boardWithGap,
                               currentPosition + boardWithGap)
            ELSE LET customWidth == IF remainingLength > gapBetweenBoards
                                    THEN remainingLength - gapBetweenBoards
                                    ELSE remainingLength
                 IN IF remainingLength >= MinCustomWidth /\ customWidth >= MinCustomWidth
                    THEN Append(layout, [nominal |-> "CUSTOM",
                                         width |-> customWidth,
                                         thickness |-> availableOptions[1].thickness,
                                         position |-> currentPosition,
                                         isCustom |-> TRUE])
                    ELSE layout

\* the for loop of lines 300-319, from index i (0-based) on
RECURSIVE PlaceSymmetric(_, _, _, _)
PlaceSymmetric(sortedBySize, i, frontPosition, backPosition) ==
    IF i >= Len(sortedBySize) THEN <<>>
    ELSE LET board == sortedBySize[i + 1] IN
         IF i % 2 = 0
         THEN <<[board EXCEPT !.position = frontPosition]>>
              \o PlaceSymmetric(sortedBySize, i + 1,
                                frontPosition + board.width + gapBetweenBoards, backPosition)
         ELSE <<[board EXCEPT !.position = backPosition - board.width]>>
              \o PlaceSymmetric(sortedBySize, i + 1, frontPosition,
                                backPosition - board.width - gapBetweenBoards)

\* the overlap adjustment of lines 325-334, from index i (1-based) on
RECURSIVE AdjustOverlaps(_, _)
AdjustOverlaps(sortedByPosition, i) ==
    IF i > Len(sortedByPosition) THEN sortedByPosition
    ELSE LET prevBoard == sortedByPosition[i - 1]
             currentBoard == sortedByPosition[i]
             prevEndPosition == prevBoard.position + prevBoard.width + gapBetweenBoards
         IN IF currentBoard.position < prevEndPosition
            THEN AdjustOverlaps([sortedByPosition EXCEPT ![i].position = prevEndPosition], i + 1)
            ELSE AdjustOverlaps(sortedByPosition, i + 1)

getFloorboardLayout(cfg) ==
    LET internalLength == InternalLength(cfg)
        availableLumber == AvailableLumber(cfg)
        panelThickness == cfg.materials.panelThickness
        filtered == SortByWidthDescending(
                        SelectSeq(LumberOptions, LAMBDA o : o.nominal \in availableLumber))
        availableOptions == IF Len(filtered) = 0 THEN <<LumberOptions[1]>> ELSE filtered
        layout == GreedyFill(availableOptions, <<>>, internalLength, panelThickness)
        sortedBySize == SortByWidthDescending(layout)
        symmetricLayout == PlaceSymmetric(sortedBySize, 0, panelThickness,
                                          internalLength + panelThickness)
        sortedByPosition == SortByPosition(symmetricLayout)
    IN IF Len(layout) = 0 THEN <<>>
       ELSE AdjustOverlaps(sortedByPosition, 2)

----------------------------------------------------------------------------
(* NXGenerator: expressions and panel splicing *)

\* Map.prototype.set: overwrite in place or append, keeping insertion order
MapSet(m, k, v) ==
    IF \E i \in DOMAIN m : m[i].key = k
    THEN <<>> \o [i \in DOMAIN m |-> IF m[i].key = k THEN [key |-> k, value |-> v] ELSE m[i]]
    ELSE Append(m, [key |-> k, value |-> v])

\* the set calls of a method, one after the other on the map the last one left
RECURSIVE MapSetAll(_, _)
MapSetAll(m, entries) ==
    IF entries = <<>> THEN m
    ELSE CHOOSE r \in {MapSetAll(next, Tail(entries)) :
                         next \in {MapSet(m, Head(entries)[1], Head(entries)[2])}} : TRUE

\* Map.prototype.get of a key that is present; the value as a rational
MapGet(m, k) == m[CHOOSE i \in DOMAIN m : m[i].key = k].value

\* Map.prototype.get of an expression whose value is a whole number of units
MapGetInt(m, k) == MapGet(m, k)[1]

\* panelName.toLowerCase() for the panel names of calculateCrateSplicing
ToLowerCase(panelName) ==
    CASE panelName = "FRONT_PANEL" -> "front_panel"
      [] panelName = "BACK_PANEL" -> "back_panel"
      [] panelName = "LEFT_END_PANEL" -> "left_end_panel"
      [] panelName = "RIGHT_END_PANEL" -> "right_end_panel"
      [] panelName = "TOP_PANEL" -> "top_panel"
      [] panelName = "BOTTOM_PANEL" -> "bottom_panel"

\* decimal long division: <<q, r>> with (a / b) * 10^n = q + r / b
RECURSIVE ScaleDigits(_, _, _, _)
ScaleDigits(q, r, b, n) ==
    IF n = 0 THEN <<q, r>>
    ELSE ScaleDigits(q * 10 + (r * 10) \div b, (r * 10) % b, b, n - 1)

\* Math.round((a / b) * 10^n), b > 0 (halves round up)
RoundScaled(a, b, n) ==
    LET f == Rat(a, b)
        qr == ScaleDigits(f[1] \div f[2], f[1] % f[2], f[2], n)
    IN IF 2 * qr[2] >= f[2] THEN qr[1] + 1 ELSE qr[1]

\* Math.abs of a rational
RAbs(p) == <<Abs(p[1]), p[2]>>

\* 10^n
RECURSIVE Pow10(_)
Pow10(n) == IF n = 0 THEN 1 ELSE 10 * Pow10(n - 1)

\* the last n decimal digits of k, zeros included
RECURSIVE PadDigits(_, _)
PadDigits(k, n) == IF n = 0 THEN "" ELSE PadDigits(k \div 10, n - 1) \o ToString(k % 10)

\* a length of u model units, in inches
Inches(u) == Rat(u, In(1))

\* a rational length in model units, in inches
RInches(r) == Rat(r[1], r[2] * In(1))

\* Number.prototype.toFixed(n) of the rational r: the sign, then the magnitude
\* rounded to n decimals (a tie goes to the larger magnitude)
toFixed(r, n) ==
    LET scaled == RoundScaled(Abs(r[1]), r[2], n)
    IN (IF r[1] < 0 THEN "-" ELSE "") \o ToString(scaled \div Pow10(n))
       \o (IF n = 0 THEN "" ELSE "." \o PadDigits(scaled % Pow10(n), n))

\* the decimals of f / 10^n without the trailing zeros
RECURSIVE FractionDigits(_, _)
FractionDigits(f, n) == IF f % 10 = 0 THEN FractionDigits(f \div 10, n - 1) ELSE PadDigits(f, n)

\* Number::toString (a template literal's ${value}) of a rational that has at
\* most four decimals
NumberToString(r) ==
    LET scaled == RoundScaled(Abs(r[1]), r[2], 4)
        whole == scaled \div Pow10(4)
        fraction == scaled % Pow10(4)
    IN (IF r[1] < 0 THEN "-" ELSE "") \o ToString(whole)
       \o (IF fraction = 0 THEN "" ELSE "." \o FractionDigits(fraction, 4))

\* Array.prototype.join
RECURSIVE Join(_, _)
Join(strings, separator) ==
    IF strings = <<>> THEN ""
    ELSE IF Len(strings) = 1 THEN strings[1]
    ELSE strings[1] \o separator \o Join(Tail(strings), separator)

\* [...new Set(array)]: the first occurrence of each element, in order
Distinct(array) ==
    LET firsts == SelectSeq([i \in DOMAIN array |-> [at |-> i, v |-> array[i]]],
                            LAMBDA e : \A j \in 1..(e.at - 1) : array[j] # e.v)
    IN <<>> \o [i \in DOMAIN firsts |-> firsts[i].v]

calculateCrateSplicing(frontWidth, frontHeight, sideWidth, sideHeight, topWidth, topLength, includeBottom, allowRotation) ==
    << calculateOptimizedSpliceLayout(frontWidth, frontHeight, "FRONT_PANEL", allowRotation),
       calculateOptimizedSpliceLayout(frontWidth, frontHeight, "BACK_PANEL", allowRotation),
       calculateOptimizedSpliceLayout(sideWidth, sideHeight, "LEFT_END_PANEL", allowRotation),
       calculateOptimizedSpliceLayout(sideWidth, sideHeight, "RIGHT_END_PANEL", allowRotation),
       calculateOptimizedSpliceLayout(topWidth, topLength, "TOP_PANEL", allowRotation) >>
    \o IF includeBottom
       THEN <<calculateOptimizedSpliceLayout(topWidth, topLength, "BOTTOM_PANEL", allowRotation)>>
       ELSE <<>>

\* areas in square units (1/256 square inch)
calculateMaterialUsage(layouts) ==
    LET sheetArea == MAX_SHEET_WIDTH * MAX_SHEET_HEIGHT
        totalPanelArea == SumSeq([i \in DOMAIN layouts |->
                                    layouts[i].panelWidth * layouts[i].panelHeight])
        totalSheets == SumSeq([i \in DOMAIN layouts |-> layouts[i].sheetCount])
        totalSheetArea == totalSheets * sheetArea
    IN [totalSheets |-> totalSheets,
        totalArea |-> totalPanelArea,
        totalSheetArea |-> totalSheetArea,
        wasteArea |-> totalSheetArea - totalPanelArea]

\* totalLinearInches in units; estimated1x4Count = Math.ceil(feet / 8)
calculateCleatMaterial(layouts) ==
    LET totalCleats == SumSeq([i \in DOMAIN layouts |-> Len(layouts[i].cleats)])
        totalLinearInches ==
            SumSeq([i \in DOMAIN layouts |->
                      SumSeq([k \in DOMAIN layouts[i].cleats |-> layouts[i].cleats[k].length])])
    IN [totalCleats |-> totalCleats,
        totalLinearInches |-> totalLinearInches,
        estimated1x4Count |-> Ceil(totalLinearInches, In(12) * 8)]

\* mutant: the side panels start an inch higher
sideGroundClearance_three == In(3)

sideGroundClearance == In(2)

\* the expressions stored at the end of calculatePanelSplicing (lines 808-831)
SplicingExpressions(layouts, cleatLayouts) ==
    LET perPanel == Flatten([i \in DOMAIN layouts |->
            << <<ToLowerCase(layouts[i].panelName) \o "_splice_count",
                 RInt(Len(layouts[i].splices))>>,
               <<ToLowerCase(layouts[i].panelName) \o "_sheet_count",
                 RInt(layouts[i].sheetCount)>>,
               <<ToLowerCase(cleatLayouts[i].panelName) \o "_cleat_count",
                 RInt(Len(cleatLayouts[i].cleats))>> >>])
        usage == calculateMaterialUsage(layouts)
        cleatUsage == calculateCleatMaterial(cleatLayouts)
        totals ==
            << <<"total_plywood_sheets", RInt(usage.totalSheets)>>,
               <<"total_cleats", RInt(cleatUsage.totalCleats)>>,
               \* Math.round(efficiency * 100) / 100, efficiency in percent
               <<"plywood_efficiency",
                 Rat(RoundScaled(usage.totalArea, usage.totalSheetArea, 4), 100)>>,
               \* Math.round(wasteArea), in square inches
               <<"plywood_waste_area", RInt(RoundScaled(usage.wasteArea, In(1) * In(1), 0))>>,
               \* Math.round(totalLinearFeet * 100) / 100
               <<"cleat_linear_feet",
                 Rat(RoundScaled(cleatUsage.totalLinearInches, In(12), 2), 100)>>,
               <<"cleat_1x4_count", RInt(cleatUsage.estimated1x4Count)>> >>
    IN perPanel \o totals

\* this.panelCleatLayouts of calculatePanelSplicing (lines 797-806)
PanelCleatLayouts(layouts) ==
    <<>> \o [i \in DOMAIN layouts |->
               calculateCleatLayout(layouts[i].panelName, layouts[i].panelWidth,
                                    layouts[i].panelHeight, layouts[i].splices,
                                    layouts[i].isRotated)]

\* Each const of the method is bound once (x \in {e}) and then used by value.
calculatePanelSplicing(self) ==
    LET internalWidth == MapGetInt(self.expressions, "internal_width")
        internalLength == MapGetInt(self.expressions, "internal_length")
        internalHeight == MapGetInt(self.expressions, "internal_height")
        panelThickness == MapGetInt(self.expressions, "panel_thickness")
        skidHeight == MapGetInt(self.expressions, "skid_height")
        floorboardThickness == MapGetInt(self.expressions, "floorboard_thickness")
        frontBackWidth == internalWidth + 2 * panelThickness
        frontBackHeight == internalHeight + floorboardThickness
        sideWidth == internalLength
        sideHeight == internalHeight + floorboardThickness + skidHeight - In(2)
        topWidth == internalWidth + 2 * panelThickness
        topLength == internalLength + 2 * panelThickness
        Stored(layouts, cleatLayouts, entries) ==
            [self EXCEPT !.panelSpliceLayouts = layouts,
                         !.panelCleatLayouts = cleatLayouts,
                         !.expressions = MapSetAll(self.expressions, entries)]
        WithCleatLayouts(layouts, cleatLayouts) ==
            CHOOSE r \in {Stored(layouts, cleatLayouts, entries) :
                            entries \in {SplicingExpressions(layouts, cleatLayouts)}} : TRUE
        WithLayouts(layouts) ==
            CHOOSE r \in {WithCleatLayouts(layouts, cleatLayouts) :
                            cleatLayouts \in {PanelCleatLayouts(layouts)}} : TRUE
    IN CHOOSE r \in {WithLayouts(layouts) :
                       layouts \in {calculateCrateSplicing(frontBackWidth, frontBackHeight,
                                                           sideWidth, sideHeight, topWidth,
                                                           topLength, FALSE, TRUE)}} : TRUE

----------------------------------------------------------------------------
(* NXGenerator: geometry *)

Point3D(x, y, z) == [x |-> x, y |-> y, z |-> z]

\* a point whose coordinates are whole numbers of units
PointInt(x, y, z) == Point3D(RInt(x), RInt(y), RInt(z))

\* mutant: the edge skids are centred on the edges of the internal width
SkidPositions_onEdges(skidCount, internalWidth, skidWidth) ==
    LET edgeOffset == internalWidth \div 2
        availableSpan == 2 * edgeOffset
    IN IF skidCount = 1 THEN <<RInt(0)>>
       ELSE IF skidCount = 2 THEN <<RInt(-edgeOffset), RInt(edgeOffset)>>
       ELSE [k \in 1..skidCount |->
               RAdd(RInt(-edgeOffset), Rat((k - 1) * availableSpan, skidCount - 1))]

\* the skidPositions array of generateShippingBase (skid centre X)
SkidPositions(skidCount, internalWidth, skidWidth) ==
    LET edgeOffset == internalWidth \div 2 - skidWidth \div 2
        availableSpan == 2 * edgeOffset
    IN IF skidCount = 1 THEN <<RInt(0)>>
       ELSE IF skidCount = 2 THEN <<RInt(-edgeOffset), RInt(edgeOffset)>>
       ELSE [k \in 1..skidCount |->
               \* -edgeOffset + i * (availableSpan / (skidCount - 1))
               RAdd(RInt(-edgeOffset), Rat((k - 1) * availableSpan, skidCount - 1))]

\* mutant: the placeholder loop stops one slot short
MaxFloorboardSlots_short == MaxBoards - 1

MaxFloorboardSlots == 40

MaxPlywoodSlots == 6

generateShippingBase(self) ==
    LET skidDims == getSkidDimensions(self.config)
        skidCount == getSkidCount(self.config)
        internalWidth == MapGetInt(self.expressions, "internal_width")
        internalLength == MapGetInt(self.expressions, "internal_length")
        panelThickness == MapGetInt(self.expressions, "panel_thickness")
        skidPositions == SkidPositions(skidCount, internalWidth, skidDims.width)
        skidStartY == 0
        skidEndY == internalLength + 2 * panelThickness
        skids == [k \in DOMAIN skidPositions |->
                    LET skidX == RSub(skidPositions[k], RInt(skidDims.width \div 2)) IN
                    [name |-> IF k = 1 THEN "SKID" ELSE "SKID_PATTERN_" \o ToString(k - 1),
                     point1 |-> Point3D(skidX, RInt(skidStartY), RInt(0)),
                     point2 |-> Point3D(RAdd(skidX, RInt(skidDims.width)), RInt(skidEndY),
                                        RInt(skidDims.height)),
                     type |-> "skid",
                     suppressed |-> FALSE,
                     metadata |-> IF k = 1 THEN "Base skid (to be patterned in NX)"
                                  ELSE "Pattern instance " \o ToString(k - 1)]]
        floorboardLayout == getFloorboardLayout(self.config)
        floorboards == [k \in DOMAIN floorboardLayout |->
                    LET board == floorboardLayout[k] IN
                    [name |-> "FLOORBOARD_" \o ToString(k),
                     point1 |-> PointInt(-(internalWidth \div 2), board.position,
                                         skidDims.height),
                     point2 |-> PointInt(internalWidth \div 2, board.position + board.width,
                                         skidDims.height + board.thickness),
                     type |-> "floor",
                     suppressed |-> FALSE,
                     metadata |-> board.nominal \o " (" \o toFixed(Inches(board.width), 2)
                                  \o "\" x " \o NumberToString(Inches(board.thickness)) \o "\")"
                                  \o (IF board.isCustom THEN " - CUSTOM CUT" ELSE "")]]
        placeholders == [k \in 1..(MaxFloorboardSlots - Len(floorboardLayout)) |->
                    [name |-> "FLOORBOARD_" \o ToString(Len(floorboardLayout) + k),
                     point1 |-> PointInt(0, 0, skidDims.height),
                     point2 |-> PointInt(0, 0, skidDims.height),
                     type |-> "floor",
                     suppressed |-> TRUE,
                     metadata |-> "UNUSED - SUPPRESSED"]]
    IN [self EXCEPT !.boxes = self.boxes \o skids \o floorboards \o placeholders]

\* panelOriginX/Y/Z of a plywood panel (lines 526-551)
PlywoodOrigin(panelName, internalWidth, internalLength, internalHeight, panelThickness, skidHeight, baseZ) ==
    CASE panelName = "FRONT_PANEL" ->
           [x |-> -(internalWidth \div 2) - panelThickness, y |-> 0, z |-> skidHeight]
      [] panelName = "BACK_PANEL" ->
           [x |-> -(internalWidth \div 2) - panelThickness,
            y |-> internalLength + panelThickness, z |-> skidHeight]
      [] panelName = "LEFT_END_PANEL" ->
           [x |-> -(internalWidth \div 2) - panelThickness, y |-> panelThickness,
            z |-> sideGroundClearance]
      [] panelName = "RIGHT_END_PANEL" ->
           [x |-> internalWidth \div 2, y |-> panelThickness, z |-> sideGroundClearance]
      [] panelName = "TOP_PANEL" ->
           [x |-> -(internalWidth \div 2) - panelThickness, y |-> 0,
            z |-> baseZ + internalHeight]
      [] OTHER -> [x |-> 0, y |-> 0, z |-> 0]

\* point1 of a plywood piece (lines 561-607)
PlywoodPoint1(panelName, o, section) ==
    IF panelName \in {"FRONT_PANEL", "BACK_PANEL"}
    THEN PointInt(o.x + section.x, o.y, o.z + section.y)
    ELSE IF panelName \in {"LEFT_END_PANEL", "RIGHT_END_PANEL"}
    THEN PointInt(o.x, o.y + section.x, o.z + section.y)
    ELSE PointInt(o.x + section.x, o.y + section.y, o.z)

\* mutant: the right end panel is given its thickness inwards
PlywoodPoint2_rightInwards(panelName, o, section, panelThickness) ==
    IF panelName \in {"FRONT_PANEL", "BACK_PANEL"}
    THEN PointInt(o.x + section.x + section.width, o.y + panelThickness,
                  o.z + section.y + section.height)
    ELSE IF panelName = "LEFT_END_PANEL"
    THEN PointInt(o.x + panelThickness, o.y + section.x + section.width,
                  o.z + section.y + section.height)
    ELSE IF panelName = "RIGHT_END_PANEL"
    THEN PointInt(o.x - panelThickness, o.y + section.x + section.width,
                  o.z + section.y + section.height)
    ELSE PointInt(o.x + section.x + section.width, o.y + section.y + section.height,
                  o.z + panelThickness)

\* point2 of a plywood piece (lines 561-607)
PlywoodPoint2(panelName, o, section, panelThickness) ==
    IF panelName \in {"FRONT_PANEL", "BACK_PANEL"}
    THEN PointInt(o.x + section.x + section.width, o.y + panelThickness,
                  o.z + section.y + section.height)
    ELSE IF panelName \in {"LEFT_END_PANEL", "RIGHT_END_PANEL"}
    THEN PointInt(o.x + panelThickness, o.y + section.x + section.width,
                  o.z + section.y + section.height)
    ELSE PointInt(o.x + section.x + section.width, o.y + section.y + section.height,
                  o.z + panelThickness)

\* the plywood boxes of one panel: up to 6 pieces, then suppressed placeholders
PlywoodBoxes(layout, internalWidth, internalLength, internalHeight, panelThickness, skidHeight, baseZ) ==
    LET o == PlywoodOrigin(layout.panelName, internalWidth, internalLength, internalHeight,
                           panelThickness, skidHeight, baseZ)
        known == layout.panelName \in {"FRONT_PANEL", "BACK_PANEL", "LEFT_END_PANEL",
                                       "RIGHT_END_PANEL", "TOP_PANEL"}
        pieces == IF known THEN Min(Len(layout.sheets), MaxPlywoodSlots) ELSE 0
    IN [k \in 1..pieces |->
          [name |-> layout.panelName \o "_PLY_" \o ToString(k),
           point1 |-> PlywoodPoint1(layout.panelName, o, layout.sheets[k]),
           point2 |-> PlywoodPoint2(layout.panelName, o, layout.sheets[k], panelThickness),
           type |-> "plywood",
           plywoodPieceIndex |-> k - 1,
           panelName |-> layout.panelName,
           suppressed |-> (k - 1) >= Len(layout.sheets),
           metadata |-> "Plywood piece " \o ToString(k) \o " of "
                        \o ToString(Len(layout.sheets)) \o " ("
                        \o toFixed(Inches(layout.sheets[k].width), 1) \o "\" x "
                        \o toFixed(Inches(layout.sheets[k].height), 1) \o "\")"]]
       \o [k \in 1..(MaxPlywoodSlots - pieces) |->
          [name |-> layout.panelName \o "_PLY_" \o ToString(pieces + k),
           point1 |-> PointInt(0, 0, 0),
           point2 |-> PointInt(0, 0, 0),
           type |-> "plywood",
           plywoodPieceIndex |-> pieces + k - 1,
           panelName |-> layout.panelName,
           suppressed |-> TRUE,
           metadata |-> "UNUSED - SUPPRESSED"]]

\* panelOriginX/Y/Z of a panel's cleats (lines 650-673)
CleatOrigin(panelName, internalWidth, internalLength, internalHeight, panelThickness, skidHeight, floorboardThickness, baseZ) ==
    CASE panelName = "FRONT_PANEL" ->
           [x |-> -(internalWidth \div 2), y |-> panelThickness,
            z |-> skidHeight + floorboardThickness]
      [] panelName = "BACK_PANEL" ->
           [x |-> -(internalWidth \div 2), y |-> internalLength,
            z |-> skidHeight + floorboardThickness]
      [] panelName = "LEFT_END_PANEL" ->
           [x |-> -(internalWidth \div 2), y |-> panelThickness, z |-> sideGroundClearance]
      [] panelName = "RIGHT_END_PANEL" ->
           [x |-> internalWidth \div 2 - Eighths(6), y |-> panelThickness,
            z |-> sideGroundClearance]
      [] panelName = "TOP_PANEL" ->
           [x |-> -(internalWidth \div 2), y |-> 0,
            z |-> baseZ + internalHeight - Eighths(6)]
      [] OTHER -> [x |-> 0, y |-> 0, z |-> 0]

\* the cleat boxes of one panel (lines 676-764): along is the cleat's extent
\* on the panel's first axis, up its extent on the panel's second axis
CleatBoxes(cleatLayout, internalWidth, internalLength, internalHeight, panelThickness, skidHeight, floorboardThickness, baseZ) ==
    LET o == CleatOrigin(cleatLayout.panelName, internalWidth, internalLength,
                         internalHeight, panelThickness, skidHeight, floorboardThickness, baseZ)
        along(c) == IF c.orientation = "horizontal" THEN c.length ELSE c.width
        up(c) == IF c.orientation = "horizontal" THEN c.width ELSE c.length
        ox == RInt(o.x)
        oy == RInt(o.y)
        oz == RInt(o.z)
        p1(c) ==
            IF cleatLayout.panelName \in {"FRONT_PANEL", "BACK_PANEL"}
            THEN Point3D(RAdd(ox, c.x), oy, RAdd(oz, c.y))
            ELSE IF cleatLayout.panelName \in {"LEFT_END_PANEL", "RIGHT_END_PANEL"}
            THEN Point3D(ox, RAdd(oy, c.x), RAdd(oz, c.y))
            ELSE Point3D(RAdd(ox, c.x), RAdd(oy, c.y), oz)
        p2(c) ==
            IF cleatLayout.panelName \in {"FRONT_PANEL", "BACK_PANEL"}
            THEN Point3D(RAdd(RAdd(ox, c.x), RInt(along(c))), RAdd(oy, RInt(c.thickness)),
                         RAdd(RAdd(oz, c.y), RInt(up(c))))
            ELSE IF cleatLayout.panelName \in {"LEFT_END_PANEL", "RIGHT_END_PANEL"}
            THEN Point3D(RAdd(ox, RInt(c.thickness)), RAdd(RAdd(oy, c.x), RInt(along(c))),
                         RAdd(RAdd(oz, c.y), RInt(up(c))))
            ELSE Point3D(RAdd(RAdd(ox, c.x), RInt(along(c))),
                         RAdd(RAdd(oy, c.y), RInt(up(c))), RAdd(oz, RInt(c.thickness)))
        known == cleatLayout.panelName \in {"FRONT_PANEL", "BACK_PANEL", "LEFT_END_PANEL",
                                            "RIGHT_END_PANEL", "TOP_PANEL"}
    IN IF known
       THEN [k \in DOMAIN cleatLayout.cleats |->
               [name |-> cleatLayout.cleats[k].id,
                point1 |-> p1(cleatLayout.cleats[k]),
                point2 |-> p2(cleatLayout.cleats[k]),
                type |-> "cleat",
                suppressed |-> TRUE,
                metadata |-> cleatLayout.cleats[k].type \o " cleat ("
                             \o cleatLayout.cleats[k].orientation \o ", "
                             \o toFixed(Inches(cleatLayout.cleats[k].length), 1)
                             \o "\" long)"]]
       ELSE <<>>

generateCrateCap(self) ==
    LET internalWidth == MapGetInt(self.expressions, "internal_width")
        internalLength == MapGetInt(self.expressions, "internal_length")
        internalHeight == MapGetInt(self.expressions, "internal_height")
        panelThickness == MapGetInt(self.expressions, "panel_thickness")
        skidHeight == MapGetInt(self.expressions, "skid_height")
        floorboardThickness == MapGetInt(self.expressions, "floorboard_thickness")
        baseZ == skidHeight + floorboardThickness
        plywood == Flatten([i \in DOMAIN self.panelSpliceLayouts |->
                      PlywoodBoxes(self.panelSpliceLayouts[i], internalWidth, internalLength,
                                   internalHeight, panelThickness, skidHeight, baseZ)])
        cleats == Flatten([i \in DOMAIN self.panelCleatLayouts |->
                      CleatBoxes(self.panelCleatLayouts[i], internalWidth, internalLength,
                                 internalHeight, panelThickness, skidHeight,
                                 floorboardThickness, baseZ)])
    IN [self EXCEPT !.boxes = self.boxes \o plywood \o cleats]

\* the expressions stored by lines 358-405 of calculate, in order
BaseExpressions(cfg) ==
    LET internalWidth == InternalWidth(cfg)
        internalLength == InternalLength(cfg)
        internalHeight == InternalHeight(cfg)
        skidDims == getSkidDimensions(cfg)
        floorboardDims == getFloorboardDimensions(cfg)
        panelThickness == cfg.materials.panelThickness
        overallWidth == internalWidth + 2 * panelThickness
        overallLength == internalLength + 2 * panelThickness
        overallHeight == internalHeight + skidDims.height + floorboardDims.thickness
                         + panelThickness
        spacingInfo == getSkidSpacing(cfg)
        skidCount == getSkidCount(cfg)
        totalSpanWithMaxSpacing == (skidCount - 1) * spacingInfo.maxSpacing
        actualSpacing ==
            IF skidCount > 1 /\ totalSpanWithMaxSpacing > internalWidth - skidDims.width
            THEN Rat(internalWidth - skidDims.width, skidCount - 1)
            ELSE RInt(spacingInfo.maxSpacing)
    IN << <<"product_length", RInt(cfg.product.length)>>,
          <<"product_width", RInt(cfg.product.width)>>,
          <<"product_height", RInt(cfg.product.height)>>,
          <<"product_weight", RInt(cfg.product.weight)>>,
          <<"clearance_side", RInt(cfg.clearances.side)>>,
          <<"clearance_end", RInt(cfg.clearances.end)>>,
          <<"clearance_top", RInt(cfg.clearances.top)>>,
          <<"internal_width", RInt(internalWidth)>>,
          <<"internal_length", RInt(internalLength)>>,
          <<"internal_height", RInt(internalHeight)>>,
          <<"panel_thickness", RInt(panelThickness)>>,
          <<"skid_height", RInt(skidDims.height)>>,
          <<"skid_width", RInt(skidDims.width)>>,
          \* skidDims.nominal.length: every nominal has three characters
          <<"skid_nominal", RInt(3)>>,
          <<"floorboard_width", RInt(floorboardDims.width)>>,
          <<"floorboard_thickness", RInt(floorboardDims.thickness)>>,
          <<"floorboard_length", RInt(internalWidth)>>,
          <<"floorboard_gap", RInt(Eighths(1))>>,
          <<"floorboard_count", RInt(Len(getFloorboardLayout(cfg)))>>,
          <<"overall_width", RInt(overallWidth)>>,
          <<"overall_length", RInt(overallLength)>>,
          <<"overall_height", RInt(overallHeight)>>,
          <<"skid_max_spacing", RInt(spacingInfo.maxSpacing)>>,
          <<"skid_count", RInt(skidCount)>>,
          <<"pattern_count", RInt(skidCount)>>,
          <<"pattern_spacing", actualSpacing>> >>

\* Each step works on the instance as the step before it left it.
calculate(self) ==
    LET Stored(entries) == [self EXCEPT !.expressions = MapSetAll(self.expressions, entries)]
        WithBase(based) == generateCrateCap(based)
        WithSplicing(spliced) ==
            CHOOSE r \in {WithBase(based) : based \in {generateShippingBase(spliced)}} : TRUE
        WithExpressions(stored) ==
            CHOOSE r \in {WithSplicing(spliced) :
                            spliced \in {calculatePanelSplicing(stored)}} : TRUE
    IN CHOOSE r \in {WithExpressions(stored) :
                       stored \in {Stored(BaseExpressions(self.config))}} : TRUE

\* mutant: the four fields are static, shared by all the instances
NewInstance_staticFields(cfg) ==
    IF instances = <<>>
    THEN [op |-> "NXGenerator", config |-> cfg, boxes |-> <<>>, expressions |-> <<>>,
          panelSpliceLayouts |-> <<>>, panelCleatLayouts |-> <<>>]
    ELSE [instances[Len(instances)] EXCEPT !.config = cfg]

\* the field initialisers of lines 50-53 and the constructor parameter
NewInstance(cfg) ==
    [op |-> "NXGenerator",
     config |-> cfg,
     boxes |-> <<>>,
     expressions |-> <<>>,
     panelSpliceLayouts |-> <<>>,
     panelCleatLayouts |-> <<>>]

\* new NXGenerator(config)
NXGenerator(cfg) == calculate(NewInstance(cfg))

----------------------------------------------------------------------------
(* NXGenerator.exportNXExpressions: the text, as the sequence of its lines *)

\* Date.prototype.toISOString of the instant now milliseconds into the first
\* minute of the epoch
toISOString(now) ==
    "1970-01-01T00:00:" \o PadDigits((now \div 1000) % 60, 2) \o "."
    \o PadDigits(now % 1000, 3) \o "Z"

\* the expressions whose value the model keeps in units of 1/16 in
LengthKeys ==
    {"product_length", "product_width", "product_height", "clearance_side",
     "clearance_end", "clearance_top", "internal_width", "internal_length",
     "internal_height", "panel_thickness", "skid_height", "skid_width",
     "floorboard_width", "floorboard_thickness", "floorboard_length", "floorboard_gap",
     "overall_width", "overall_length", "overall_height", "skid_max_spacing",
     "pattern_spacing"}

\* this.expressions.get(key) as the number the program holds (inches for
\* lengths); 0 for an absent key, as "|| 0" makes it
ExpressionNumber(self, key) ==
    IF \E i \in DOMAIN self.expressions : self.expressions[i].key = key
    THEN IF key \in LengthKeys THEN RInches(MapGet(self.expressions, key))
         ELSE MapGet(self.expressions, key)
    ELSE RInt(0)

\* the fixed comment lines 853-859
SplicingNotes ==
    << "# Coordinate System: X=width, Y=length, Z=height",
       "# Origin at center of crate floor (Z=0)",
       "# ",
       "# PLYWOOD SPLICING INFORMATION:",
       "# - Maximum sheet size: 48\" x 96\"",
       "# - Vertical splices positioned on RIGHT side",
       "# - Horizontal splices positioned on BOTTOM" >>

\* the fixed comment lines 862-876
PatternNotes ==
    << "# ",
       "# SKID PATTERN INSTRUCTIONS:",
       "# - Create single SKID component at leftmost position",
       "# - Pattern along X-axis (left to right) using:",
       "#   * Count: pattern_count",
       "#   * Spacing: pattern_spacing (center-to-center)",
       "# - Skids run along Y-axis (front to back)",
       "# ",
       "# FLOORBOARD INSTRUCTIONS:",
       "# - Optimized floorboard layout using available lumber sizes",
       "# - Floorboards run along X-axis (perpendicular to skids)",
       "# - Floorboards sit on top of skids (Z position = skid_height)",
       "# - Symmetric placement: larger boards outside, smaller toward center",
       "# - 1\" clearance from front and back edges for panel/cleat space",
       "# - Custom boards may be created to fill remaining gaps" >>

\* lines 860-861 and 877-887
ExportSummary(self) ==
    LET layout == getFloorboardLayout(self.config)
        lumberSizes == Join(Distinct([i \in DOMAIN layout |-> layout[i].nominal]), ", ")
        customBoards == SelectSeq(layout, LAMBDA b : b.isCustom)
    IN [sheets |-> "# - Total plywood sheets required: "
                   \o NumberToString(ExpressionNumber(self, "total_plywood_sheets")),
        efficiency |-> "# - Material efficiency: "
                       \o NumberToString(ExpressionNumber(self, "plywood_efficiency")) \o "%",
        floorboards |->
            << "# - Active floorboards: "
                  \o NumberToString(ExpressionNumber(self, "floorboard_count"))
                  \o " out of 40 total",
               "# - Lumber sizes used: " \o lumberSizes >>
            \o (IF Len(customBoards) > 0
                THEN <<"# - Custom boards: " \o ToString(Len(customBoards)) \o " ("
                       \o Join([i \in DOMAIN customBoards |->
                                  toFixed(Inches(customBoards[i].width), 2) \o "\""], ", ")
                       \o ")">>
                ELSE <<>>)]

\* mutant: the title line carries the time of the export as well
ExportHeader_timeInTitle(self, now) ==
    LET summary == ExportSummary(self)
    IN << "# NX Expressions for AutoCrate " \o toISOString(now),
          "# Generated: " \o toISOString(now) >>
       \o SplicingNotes \o <<summary.sheets, summary.efficiency>> \o PatternNotes
       \o summary.floorboards \o <<"">>

\* lines 851-887
ExportHeader(self, now) ==
    LET summary == ExportSummary(self)
    IN << "# NX Expressions for AutoCrate",
          "# Generated: " \o toISOString(now) >>
       \o SplicingNotes \o <<summary.sheets, summary.efficiency>> \o PatternNotes
       \o summary.floorboards \o <<"">>

\* lines 890-893: one line per expression, in the map's insertion order
ExportDimensions(self) ==
    <<"# Product and Crate Dimensions">>
    \o [i \in DOMAIN self.expressions |->
          self.expressions[i].key \o "="
          \o toFixed(ExpressionNumber(self, self.expressions[i].key), 3)]

\* lines 898-919 for one panel
ExportSpliceLayout(layout) ==
    << "",
       "# " \o layout.panelName,
       "# Panel size: " \o toFixed(Inches(layout.panelWidth), 1) \o "\" x "
          \o toFixed(Inches(layout.panelHeight), 1) \o "\"",
       "# Sheets required: " \o ToString(layout.sheetCount),
       "# Splices: " \o ToString(Len(layout.splices)) >>
    \o Flatten([i \in DOMAIN layout.splices |->
          << layout.panelName \o "_SPLICE_" \o ToString(i - 1) \o "_X="
                \o toFixed(Inches(layout.splices[i].x), 3),
             layout.panelName \o "_SPLICE_" \o ToString(i - 1) \o "_Y="
                \o toFixed(Inches(layout.splices[i].y), 3),
             layout.panelName \o "_SPLICE_" \o ToString(i - 1) \o "_TYPE=\""
                \o layout.splices[i].orientation \o "\"" >>])
    \o Flatten([i \in DOMAIN layout.sheets |->
          << layout.sheets[i].id \o "_X=" \o toFixed(Inches(layout.sheets[i].x), 3),
             layout.sheets[i].id \o "_Y=" \o toFixed(Inches(layout.sheets[i].y), 3),
             layout.sheets[i].id \o "_WIDTH=" \o toFixed(Inches(layout.sheets[i].width), 3),
             layout.sheets[i].id \o "_HEIGHT="
                \o toFixed(Inches(layout.sheets[i].height), 3) >>])

\* lines 896-920
ExportSpliceLayouts(self) ==
    <<"", "# PANEL SPLICE LAYOUTS">>
    \o Flatten([i \in DOMAIN self.panelSpliceLayouts |->
                  ExportSpliceLayout(self.panelSpliceLayouts[i])])

\* box.name.startsWith('FLOORBOARD_'): the generator gives such names to its
\* floor boxes and to no other box
StartsWithFloorboard(box) == box.type = "floor"

\* toFixed(3) of a coordinate of a box
Coordinate(v) == toFixed(RInches(v), 3)

\* toFixed(3) of Math.abs(b - a) for two coordinates of a box
Extent(a, b) == toFixed(RInches(RAbs(RSub(b, a))), 3)

\* lines 954-956: the suppression line of a box that is not plywood
ExportSuppressed(box) ==
    IF box.suppressed THEN <<"# " \o box.name \o "_SUPPRESSED=TRUE">> ELSE <<>>

\* lines 925-963 for one box
ExportBox(self, box) ==
    LET suppressedText == IF box.suppressed THEN " (SUPPRESSED)" ELSE " (ACTIVE)"
    IN <<"", "# " \o box.name>>
       \o (IF box.name = "SKID"
           THEN << "# NOTE: Pattern this component "
                      \o NumberToString(ExpressionNumber(self, "pattern_count"))
                      \o " times along X-axis",
                   "# with center-to-center spacing of "
                      \o toFixed(ExpressionNumber(self, "pattern_spacing"), 3) \o "\" " >>
           ELSE <<>>)
       \o (IF StartsWithFloorboard(box)
           THEN <<"# " \o box.name \o suppressedText \o " - " \o box.metadata>>
           ELSE <<>>)
       \o (IF box.type = "plywood"
           THEN << "# Panel: " \o box.panelName \o ", Piece "
                      \o ToString(box.plywoodPieceIndex + 1) \o "/6" \o suppressedText,
                   "# " \o box.metadata,
                   "# 7 PLYWOOD PARAMETERS:",
                   box.name \o "_X=" \o Coordinate(box.point1.x),
                   box.name \o "_Y=" \o Coordinate(box.point1.y),
                   box.name \o "_Z=" \o Coordinate(box.point1.z),
                   box.name \o "_WIDTH=" \o Extent(box.point1.x, box.point2.x),
                   box.name \o "_LENGTH=" \o Extent(box.point1.y, box.point2.y),
                   box.name \o "_HEIGHT=" \o Extent(box.point1.z, box.point2.z),
                   box.name \o "_THICKNESS="
                      \o toFixed(ExpressionNumber(self, "panel_thickness"), 3) >>
                \o (IF box.suppressed THEN <<box.name \o "_SUPPRESSED=TRUE">> ELSE <<>>)
           ELSE ExportSuppressed(box)
                \o << box.name \o "_X1=" \o Coordinate(box.point1.x),
                      box.name \o "_Y1=" \o Coordinate(box.point1.y),
                      box.name \o "_Z1=" \o Coordinate(box.point1.z),
                      box.name \o "_X2=" \o Coordinate(box.point2.x),
                      box.name \o "_Y2=" \o Coordinate(box.point2.y),
                      box.name \o "_Z2=" \o Coordinate(box.point2.z) >>)

\* lines 923-964
ExportBoxes(self) ==
    <<"", "# Component Positions (Two Diagonal Points)">>
    \o Flatten([i \in DOMAIN self.boxes |-> ExportBox(self, self.boxes[i])])

\* the returned text when the clock reads now
exportNXExpressions(self, now) ==
    ExportHeader(self, now) \o ExportDimensions(self) \o ExportSpliceLayouts(self)
    \o ExportBoxes(self)

----------------------------------------------------------------------------
(* NXGenerator.generateBOM *)

\* panelName.replace(/_/g, ' ') for the panel names of calculateCrateSplicing
ReplaceUnderscores(panelName) ==
    CASE panelName = "FRONT_PANEL" -> "FRONT PANEL"
      [] panelName = "BACK_PANEL" -> "BACK PANEL"
      [] panelName = "LEFT_END_PANEL" -> "LEFT END PANEL"
      [] panelName = "RIGHT_END_PANEL" -> "RIGHT END PANEL"
      [] panelName = "TOP_PANEL" -> "TOP PANEL"
      [] panelName = "BOTTOM_PANEL" -> "BOTTOM PANEL"

\* mutant: a board starts a new group whenever its nominal differs from the
\* nominal of the board before it
FloorboardGroups_adjacent(floorboardLayout) ==
    LET firsts == SelectSeq([i \in DOMAIN floorboardLayout |-> i],
                            LAMBDA i : i = 1 \/ floorboardLayout[i - 1].nominal
                                                # floorboardLayout[i].nominal)
    IN <<>> \o [g \in DOMAIN firsts |->
          [nominal |-> floorboardLayout[firsts[g]].nominal,
           count |-> Cardinality({i \in DOMAIN floorboardLayout :
                        /\ i >= firsts[g]
                        /\ g < Len(firsts) => i < firsts[g + 1]}),
           width |-> floorboardLayout[firsts[g]].width,
           thickness |-> floorboardLayout[firsts[g]].thickness,
           isCustom |-> floorboardLayout[firsts[g]].isCustom]]

\* the floorboardGroups map of lines 993-1007: one group per nominal, in the
\* order of first occurrence, with the dimensions of the first such board
FloorboardGroups(floorboardLayout) ==
    LET nominals == Distinct([i \in DOMAIN floorboardLayout |-> floorboardLayout[i].nominal])
        First(nominal) == CHOOSE i \in DOMAIN floorboardLayout :
                            /\ floorboardLayout[i].nominal = nominal
                            /\ \A j \in 1..(i - 1) : floorboardLayout[j].nominal # nominal
    IN <<>> \o [g \in DOMAIN nominals |->
          [nominal |-> nominals[g],
           count |-> Cardinality({i \in DOMAIN floorboardLayout :
                                    floorboardLayout[i].nominal = nominals[g]}),
           width |-> floorboardLayout[First(nominals[g])].width,
           thickness |-> floorboardLayout[First(nominals[g])].thickness,
           isCustom |-> floorboardLayout[First(nominals[g])].isCustom]]

\* count > 1 ? 's' : ''
Plural(count) == IF count > 1 THEN "s" ELSE ""

generateBOM(self) ==
    LET skidCount == getSkidCount(self.config)
        skidDims == getSkidDimensions(self.config)
        internalLength == MapGetInt(self.expressions, "internal_length")
        internalWidth == MapGetInt(self.expressions, "internal_width")
        panelThickness == MapGetInt(self.expressions, "panel_thickness")
        floorboardLayout == getFloorboardLayout(self.config)
        floorboardCount == Len(floorboardLayout)
        floorboardGroups == FloorboardGroups(floorboardLayout)
        totalSheets == ExpressionNumber(self, "total_plywood_sheets")
        efficiency == ExpressionNumber(self, "plywood_efficiency")
        cleatUsage == calculateCleatMaterial(self.panelCleatLayouts)
        totalLinearFeet == Rat(cleatUsage.totalLinearInches, In(12))
    IN << [item |-> "Skid",
           size |-> skidDims.nominal,
           length |-> internalLength,
           quantity |-> skidCount,
           material |-> "Lumber",
           note |-> "Min 3.5\" height required for forklift access. "
                    \o "Single component patterned " \o ToString(skidCount) \o " times."] >>
       \o [g \in DOMAIN floorboardGroups |->
             LET group == floorboardGroups[g] IN
             [item |-> IF group.isCustom THEN "Custom Floorboard" ELSE "Floorboard",
              size |-> group.nominal \o " (" \o toFixed(Inches(group.width), 2) \o "\" x "
                       \o NumberToString(Inches(group.thickness)) \o "\")",
              length |-> internalWidth,
              quantity |-> group.count,
              material |-> "Lumber",
              note |-> IF group.isCustom
                       THEN "Custom cut board. " \o ToString(group.count) \o " piece"
                            \o Plural(group.count) \o " needed."
                       ELSE "Standard lumber. " \o ToString(group.count) \o " piece"
                            \o Plural(group.count) \o " of " \o ToString(floorboardCount)
                            \o " total boards."]]
       \o << [item |-> "Plywood Sheet (48\"x96\")",
              size |-> "48\" x 96\"",
              thickness |-> panelThickness,
              quantity |-> totalSheets[1],
              material |-> "Plywood",
              note |-> "Material efficiency: " \o NumberToString(efficiency)
                       \o "%. Splices: vertical on right, horizontal on bottom."] >>
       \o [i \in DOMAIN self.panelSpliceLayouts |->
             LET layout == self.panelSpliceLayouts[i] IN
             [item |-> ReplaceUnderscores(layout.panelName),
              size |-> toFixed(Inches(layout.panelWidth), 1) \o "\" x "
                       \o toFixed(Inches(layout.panelHeight), 1) \o "\"",
              thickness |-> panelThickness,
              quantity |-> 1,
              material |-> "Plywood Panel",
              note |-> "Requires " \o ToString(layout.sheetCount) \o " sheets, "
                       \o ToString(Len(layout.splices)) \o " splices"]]
       \o << [item |-> "Cleats (1x4)",
              size |-> "1x4 x 8ft",
              totalLength |-> totalLinearFeet,
              quantity |-> cleatUsage.estimated1x4Count,
              material |-> "Lumber",
              note |-> ToString(cleatUsage.totalCleats) \o " total cleats, "
                       \o toFixed(totalLinearFeet, 1) \o " linear feet"] >>

----------------------------------------------------------------------------
(* Panel-level specification: the splicer and the cleat calculator applied  *)
(* to one panel.                                                            *)

MaxPanelSteps == 9

PanelNames == {"FRONT_PANEL", "LEFT_END_PANEL", "TOP_PANEL"}

\* multiples of 24 in, each exactly, 1/8 in over, 7 in and 7 1/8 in over
\* (the cleat spacing boundaries) and 1/8 in under the next multiple
PanelWidths ==
    {In(24) * a + b : a \in 0..MaxPanelSteps,
                      b \in {0, Eighths(1), In(7), In(7) + Eighths(1), In(24) - Eighths(1)}}
    \ {0}

PanelHeights ==
    {In(24) * a + b : a \in 0..MaxPanelSteps, b \in {0, Eighths(1), In(24) - Eighths(1)}}
    \ {0}

InitSplice ==
    /\ panel \in [name : PanelNames, width : PanelWidths, height : PanelHeights]
    /\ splice = Null
    /\ cleat = Null
    /\ config = Null
    /\ floor = Null
    /\ gen = Null
    /\ instances = <<>>
    /\ studio = Null
    /\ call = Null

CalcSpliceLayout(useRotated) ==
    /\ splice = Null
    /\ splice' = [op |-> "calculateSpliceLayout",
                  allowRotation |-> useRotated,
                  result |-> calculateSpliceLayout(panel.width, panel.height,
                                                   panel.name, useRotated)]
    /\ UNCHANGED <<panel, cleat, config, floor, gen, instances, call, studio>>

CalcOptimizedSpliceLayout(allowRotation) ==
    /\ splice = Null
    /\ splice' = [op |-> "calculateOptimizedSpliceLayout",
                  allowRotation |-> allowRotation,
                  result |-> calculateOptimizedSpliceLayout(panel.width, panel.height,
                                                            panel.name, allowRotation)]
    /\ UNCHANGED <<panel, cleat, config, floor, gen, instances, call, studio>>

CalcCleatLayout ==
    /\ splice # Null
    /\ splice.op = "calculateOptimizedSpliceLayout"
    /\ cleat = Null
    /\ cleat' = calculateCleatLayout(splice.result.panelName, splice.result.panelWidth,
                                     splice.result.panelHeight, splice.result.splices,
                                     splice.result.isRotated)
    /\ UNCHANGED <<panel, splice, config, floor, gen, instances, call, studio>>

NextSplice ==
    \/ \E useRotated \in BOOLEAN : CalcSpliceLayout(useRotated)
    \/ \E allowRotation \in BOOLEAN : CalcOptimizedSpliceLayout(allowRotation)
    \/ CalcCleatLayout

SpecSplice == InitSplice /\ [][NextSplice]_vars

----------------------------------------------------------------------------
(* Floorboard specification: getFloorboardLayout applied to one            *)
(* configuration.                                                           *)

MaxFineEighths == 328

MaxCoarseFeet == 20

\* every 1/8 in up to 41 in, then every foot (exactly and 3/8 in over) up to 20 ft
FloorLengths ==
    {Eighths(k) : k \in 1..MaxFineEighths}
    \cup {In(12) * a + b : a \in 1..MaxCoarseFeet, b \in {0, Eighths(3)}}

LumberChoices ==
    {Undefined, {}, {"2x6"}, {"2x12"}, {"2x6", "2x12"}, {"2x8", "2x10"}, AllLumber}

FloorConfigs ==
    {[product |-> [length |-> l, width |-> In(40), height |-> In(50), weight |-> 800],
      clearances |-> [side |-> In(2), end |-> e, top |-> In(3)],
      materials |-> [panelThickness |-> t, allow3x4Lumber |-> FALSE, availableLumber |-> a]] :
        l \in FloorLengths, e \in {0, In(2)}, t \in {Eighths(6), In(1)}, a \in LumberChoices}

InitFloor ==
    /\ config \in FloorConfigs
    /\ floor = Null
    /\ panel = Null
    /\ splice = Null
    /\ cleat = Null
    /\ gen = Null
    /\ instances = <<>>
    /\ studio = Null
    /\ call = Null

GetFloorboardLayout ==
    /\ config # Null
    /\ floor = Null
    /\ floor' = [op |-> "getFloorboardLayout", result |-> getFloorboardLayout(config)]
    /\ UNCHANGED <<panel, splice, cleat, config, gen, instances, call, studio>>

NextFloor == GetFloorboardLayout

SpecFloor == InitFloor /\ [][NextFloor]_vars

----------------------------------------------------------------------------
(* Generator specification: one NXGenerator built from one configuration.   *)

MaxSkidGaps == 4

\* the maximum spacings of Table 5-4 and the skid widths of Table 5-3
TableSpacings == {In(20), In(24), In(28), In(30), In(41)}

TableSkidWidths == {In(2) + Eighths(4), In(3) + Eighths(4), In(5) + Eighths(4), In(7) + Eighths(2)}

\* internal widths at, 1/8 in under and 1/8 in over every k * maxSpacing + skid
\* width, three widths narrower than or as narrow as a skid, and the widths of
\* two skids side by side, exactly and 1/8 in under
SkidSweepWidths ==
    {k * m + w + d : k \in 1..MaxSkidGaps, m \in TableSpacings, w \in TableSkidWidths,
                     d \in {-Eighths(1), 0, Eighths(1)}}
    \cup {Eighths(1), In(1), In(3) + Eighths(4)}
    \cup {2 * w - d : w \in TableSkidWidths, d \in {0, Eighths(1)}}

\* <<weight, allow3x4Lumber>> at both sides of every threshold of the tables
WeightChoices ==
    {<<500, TRUE>>, <<500, FALSE>>, <<501, TRUE>>}
    \cup {<<w, FALSE>> : w \in {4500, 4501, 6000, 6001, 12000, 12001, 20000, 20001,
                                30000, 30001, 40000, 40001}}

SkidSweep ==
    {[product |-> [length |-> In(40), width |-> w, height |-> In(50), weight |-> wa[1]],
      clearances |-> [side |-> 0, end |-> In(2), top |-> In(3)],
      materials |-> [panelThickness |-> Eighths(6), allow3x4Lumber |-> wa[2],
                     availableLumber |-> Undefined]] :
        w \in SkidSweepWidths, wa \in WeightChoices}

SizeSweep ==
    {[product |-> [length |-> l, width |-> w, height |-> h, weight |-> wt],
      clearances |-> [side |-> c, end |-> c, top |-> c],
      materials |-> [panelThickness |-> t, allow3x4Lumber |-> FALSE, availableLumber |-> a]] :
        l \in {Eighths(1), In(30), In(96), In(135)},
        w \in {In(40), In(135)},
        h \in {Eighths(1), In(45), In(100), In(135)},
        wt \in {800, 10000},
        c \in {0, In(2)},
        t \in {Eighths(1), Eighths(6), In(1)},
        a \in {Undefined, {}, {"2x6", "2x12"}}}

\* crates whose panels need more sheets than a panel has plywood slots
SheetSweep ==
    {[product |-> [length |-> l, width |-> w, height |-> h, weight |-> 800],
      clearances |-> [side |-> In(2), end |-> In(2), top |-> In(3)],
      materials |-> [panelThickness |-> Eighths(6), allow3x4Lumber |-> FALSE,
                     availableLumber |-> Undefined]] :
        l \in {In(100), In(200)}, w \in {In(150), In(200)}, h \in {In(50), In(100)}}

GenConfigs == SkidSweep \cup SizeSweep \cup SheetSweep

Init ==
    /\ config \in GenConfigs
    /\ gen = Null
    /\ floor = Null
    /\ panel = Null
    /\ splice = Null
    /\ cleat = Null
    /\ instances = <<>>
    /\ studio = Null
    /\ call = Null

Construct ==
    /\ gen = Null
    /\ gen' = NXGenerator(config)
    /\ UNCHANGED <<panel, splice, cleat, config, floor, instances, call, studio>>

Next == Construct

Spec == Init /\ [][Next]_vars

----------------------------------------------------------------------------
(* Table specification: the lumber tables applied to one configuration.     *)

\* the weight thresholds of the three tables
TableThresholds ==
    {500, 2000, 4000, 4500, 6000, 8000, 12000, 20000, 30000, 40000, 60000}

\* each threshold, one pound under and one pound over, and the extremes
TableWeights == {0, 1, 100000} \cup {t + d : t \in TableThresholds, d \in {-1, 0, 1}}

\* internal lengths at and 1/8 in over the span ratings
TableLengths ==
    {In(12), In(24), In(24) + Eighths(1), In(36), In(36) + Eighths(1), In(48),
     In(48) + Eighths(1), In(96)}

\* availableLumber left out, or any subset of the four nominal sizes
TableLumberChoices == {Undefined} \cup SUBSET AllLumber

TableConfigs ==
    {[product |-> [length |-> In(40), width |-> w, height |-> In(50), weight |-> wt],
      clearances |-> [side |-> 0, end |-> 0, top |-> In(3)],
      materials |-> [panelThickness |-> Eighths(6), allow3x4Lumber |-> a,
                     availableLumber |-> Undefined]] :
        w \in SkidSweepWidths, wt \in TableWeights, a \in BOOLEAN}
    \cup
    {[product |-> [length |-> l, width |-> In(40), height |-> In(50), weight |-> wt],
      clearances |-> [side |-> 0, end |-> 0, top |-> In(3)],
      materials |-> [panelThickness |-> Eighths(6), allow3x4Lumber |-> FALSE,
                     availableLumber |-> a]] :
        l \in TableLengths, wt \in TableWeights, a \in TableLumberChoices}

InitTable ==
    /\ config \in TableConfigs
    /\ call = Null
    /\ gen = Null
    /\ floor = Null
    /\ panel = Null
    /\ splice = Null
    /\ cleat = Null
    /\ instances = <<>>
    /\ studio = Null

GetSkidDimensions ==
    /\ call = Null
    /\ call' = [op |-> "getSkidDimensions", result |-> getSkidDimensions(config)]
    /\ UNCHANGED <<panel, splice, cleat, config, floor, gen, instances, studio>>

GetSkidCount ==
    /\ call = Null
    /\ call' = [op |-> "getSkidCount", result |-> getSkidCount(config)]
    /\ UNCHANGED <<panel, splice, cleat, config, floor, gen, instances, studio>>

GetFloorboardDimensions ==
    /\ call = Null
    /\ call' = [op |-> "getFloorboardDimensions", result |-> getFloorboardDimensions(config)]
    /\ UNCHANGED <<panel, splice, cleat, config, floor, gen, instances, studio>>

NextTable ==
    \/ GetSkidDimensions
    \/ GetSkidCount
    \/ GetFloorboardDimensions
    \/ GetFloorboardLayout

SpecTable == InitTable /\ [][NextTable]_vars

----------------------------------------------------------------------------
(* Sequence specification: several generators built one after another.      *)

MaxInstances == 3

SeqConfigs ==
    {[product |-> [length |-> l, width |-> In(40), height |-> In(45), weight |-> wt],
      clearances |-> [side |-> In(2), end |-> In(2), top |-> In(3)],
      materials |-> [panelThickness |-> Eighths(6), allow3x4Lumber |-> FALSE,
                     availableLumber |-> Undefined]] :
        l \in {In(30), In(96), In(135)}, wt \in {800, 10000}}

InitSeq ==
    /\ instances = <<>>
    /\ studio = Null
    /\ call = Null
    /\ config = Null
    /\ gen = Null
    /\ floor = Null
    /\ panel = Null
    /\ splice = Null
    /\ cleat = Null

ConstructInstance(cfg) ==
    /\ Len(instances) < MaxInstances
    /\ instances' = Append(instances, NXGenerator(cfg))
    /\ UNCHANGED <<panel, splice, cleat, config, floor, gen, call, studio>>

NextSeq == \E cfg \in SeqConfigs : ConstructInstance(cfg)

SpecSeq == InitSeq /\ [][NextSeq]_vars

----------------------------------------------------------------------------
(* Output specification: one generator is constructed, then serialised with *)
(* exportNXExpressions at successive instants of the clock, or asked for    *)
(* its bill of materials.                                                   *)

MaxExports == 2

MaxClock == 2

ExportConfigs ==
    {[product |-> [length |-> l, width |-> w, height |-> In(45), weight |-> wt],
      clearances |-> [side |-> In(2), end |-> In(2), top |-> In(3)],
      materials |-> [panelThickness |-> Eighths(6), allow3x4Lumber |-> FALSE,
                     availableLumber |-> lumber]] :
        l \in {In(30), In(96), In(135) + Eighths(3)}, w \in {In(40), In(100)},
        wt \in {800, 10000}, lumber \in {Undefined, {"2x6", "2x10"}}}

InitExport ==
    /\ config \in ExportConfigs
    /\ gen = Null
    /\ floor = Null
    /\ panel = Null
    /\ splice = Null
    /\ cleat = Null
    /\ instances = <<>>
    /\ studio = Null
    /\ call = Null

\* generator.exportNXExpressions() when the clock reads now; the clock never
\* runs backwards, and two calls may fall in the same millisecond
ExportNXExpressions ==
    /\ gen # Null
    /\ \/ call = Null
       \/ call.op = "exportNXExpressions" /\ Len(call.texts) < MaxExports
    /\ \E now \in (IF call = Null THEN 0 ELSE call.now)..MaxClock :
         call' = [op |-> "exportNXExpressions",
                  texts |-> (IF call = Null THEN <<>> ELSE call.texts)
                            \o <<exportNXExpressions(gen, now)>>,
                  times |-> (IF call = Null THEN <<>> ELSE call.times) \o <<now>>,
                  now |-> now]
    /\ UNCHANGED <<panel, splice, cleat, config, floor, gen, instances, studio>>

\* generator.generateBOM()
GenerateBOM ==
    /\ gen # Null
    /\ call = Null
    /\ call' = [op |-> "generateBOM", result |-> generateBOM(gen)]
    /\ UNCHANGED <<panel, splice, cleat, config, floor, gen, instances, studio>>

NextExport == Construct \/ ExportNXExpressions \/ GenerateBOM

SpecExport == InitExport /\ [][NextExport]_vars

----------------------------------------------------------------------------
(* Design studio: the design store, the validation schema and                *)
(* DesignStudio.onSubmit. The numbers of a configuration are kept in         *)
(* quarters, so that 0.25, 0.5 and 0.75 are whole.                           *)

\* the number n, in quarters
Whole(n) == 4 * n

\* the number k / 4, in quarters
Quarter(k) == k

\* { ...a, ...b } for two objects
Spread(a, b) == [k \in DOMAIN a \cup DOMAIN b |-> IF k \in DOMAIN b THEN b[k] ELSE a[k]]

\* o.k, or the empty object when o has no k (spreading undefined adds nothing)
Field(o, k) == IF k \in DOMAIN o THEN o[k] ELSE <<>>

defaultConfiguration ==
    [id |-> "draft",
     name |-> "New Crate Design",
     templateVersion |-> "2.0.0",
     product |-> [length |-> Whole(60), width |-> Whole(40), height |-> Whole(48),
                  weight |-> Whole(500),
                  centerOfGravity |-> [x |-> Whole(0), y |-> Whole(0), z |-> Whole(0)]],
     clearances |-> [width |-> Whole(2), length |-> Whole(2), height |-> Whole(4)],
     skids |-> [overhang |-> [front |-> Whole(2), back |-> Whole(2)],
                material |-> "Hem-Fir #2",
                spacing |-> Whole(24)],
     materials |-> [lumber |-> [grade |-> "#2", treatment |-> "HT"],
                    plywood |-> [grade |-> "CDX", thickness |-> Quarter(3)],
                    hardware |-> [coating |-> "Zinc"]]]

\* setConfiguration of the store
setConfiguration(state, cfg) ==
    [state EXCEPT !.configuration = Spread(state.configuration, cfg)]

\* recordDesign of the store; generated is the id generateId() would return
recordDesign(state, design, generated) ==
    [state EXCEPT !.designHistory =
        <<[design EXCEPT !.configuration.id =
              IF design.configuration.id # "" THEN design.configuration.id ELSE generated]>>
        \o state.designHistory]

\* the paths of the issues crateConfigurationSchema reports on a candidate
SchemaIssues(c) ==
    {path \in {"name", "product.length", "product.width", "product.height",
               "product.weight", "clearances.width", "clearances.length",
               "clearances.height", "skids.overhang.front", "skids.overhang.back",
               "skids.material", "skids.spacing", "materials.lumber.grade",
               "materials.lumber.treatment", "materials.plywood.grade",
               "materials.plywood.thickness", "materials.hardware.coating"} :
        CASE path = "name" -> Len(c.name) < 3 \/ Len(c.name) > 100
          [] path = "product.length" -> ~(c.product.length > 0)
          [] path = "product.width" -> ~(c.product.width > 0)
          [] path = "product.height" -> ~(c.product.height > 0)
          [] path = "product.weight" -> ~(c.product.weight > 0)
          [] path = "clearances.width" -> c.clearances.width < Quarter(2)
          [] path = "clearances.length" -> c.clearances.length < Quarter(2)
          [] path = "clearances.height" -> c.clearances.height < Quarter(2)
          [] path = "skids.overhang.front" -> c.skids.overhang.front < Whole(0)
          [] path = "skids.overhang.back" -> c.skids.overhang.back < Whole(0)
          [] path = "skids.material" -> Len(c.skids.material) < 2
          [] path = "skids.spacing" -> c.skids.spacing < Whole(12)
          [] path = "materials.lumber.grade" -> Len(c.materials.lumber.grade) < 2
          [] path = "materials.lumber.treatment" -> Len(c.materials.lumber.treatment) < 1
          [] path = "materials.plywood.grade" -> Len(c.materials.plywood.grade) < 2
          [] path = "materials.plywood.thickness" ->
                c.materials.plywood.thickness < Quarter(1)
          [] path = "materials.hardware.coating" -> Len(c.materials.hardware.coating) < 2}

\* mutant: the outcome of the parse is not looked at
ParseSuccess_always(c) == c = c

\* parsed.success of crateConfigurationSchema.safeParseAsync(c)
ParseSuccess(c) == SchemaIssues(c) = {}

\* candidateConfig of onSubmit (lines 67-99 of the component)
CandidateConfig(configuration, overrides) ==
    [name |-> IF "name" \in DOMAIN overrides THEN overrides.name ELSE configuration.name,
     product |-> Spread(configuration.product, Field(overrides, "product")),
     clearances |-> Spread(configuration.clearances, Field(overrides, "clearances")),
     skids |-> Spread(Spread(configuration.skids, Field(overrides, "skids")),
                      [overhang |-> Spread(configuration.skids.overhang,
                                           Field(Field(overrides, "skids"), "overhang"))]),
     materials |->
        [lumber |-> Spread(configuration.materials.lumber,
                           Field(Field(overrides, "materials"), "lumber")),
         plywood |-> Spread(configuration.materials.plywood,
                            Field(Field(overrides, "materials"), "plywood")),
         hardware |-> Spread(configuration.materials.hardware,
                             Field(Field(overrides, "materials"), "hardware"))]]

\* mergedConfig of onSubmit (lines 119-126)
MergedConfig(configuration, data) ==
    Spread(Spread(configuration, data),
           [product |-> data.product, clearances |-> data.clearances,
            skids |-> data.skids, materials |-> data.materials])

\* the length of JSON.stringify of a string without characters to escape
JsonStringLength(s) == Len(s) + 2

\* the length of JSON.stringify of a number kept in quarters
JsonNumberLength(v) == Len(NumberToString(Rat(v, Whole(1))))

\* the length of JSON.stringify of an object, from its <<key, value length>>
\* pairs: the braces, each "key": and the commas between the members
JsonObjectLength(members) ==
    2 + SumSeq([i \in DOMAIN members |-> JsonStringLength(members[i][1]) + 1 + members[i][2]])
    + (IF members = <<>> THEN 0 ELSE Len(members) - 1)

\* JSON.stringify(config).length for a configuration with the store's keys
JsonLength(c) ==
    JsonObjectLength(
      << <<"id", JsonStringLength(c.id)>>,
         <<"name", JsonStringLength(c.name)>>,
         <<"templateVersion", JsonStringLength(c.templateVersion)>>,
         <<"product", JsonObjectLength(
            << <<"length", JsonNumberLength(c.product.length)>>,
               <<"width", JsonNumberLength(c.product.width)>>,
               <<"height", JsonNumberLength(c.product.height)>>,
               <<"weight", JsonNumberLength(c.product.weight)>>,
               <<"centerOfGravity", JsonObjectLength(
                  << <<"x", JsonNumberLength(c.product.centerOfGravity.x)>>,
                     <<"y", JsonNumberLength(c.product.centerOfGravity.y)>>,
                     <<"z", JsonNumberLength(c.product.centerOfGravity.z)>> >>)>> >>)>>,
         <<"clearances", JsonObjectLength(
            << <<"width", JsonNumberLength(c.clearances.width)>>,
               <<"length", JsonNumberLength(c.clearances.length)>>,
               <<"height", JsonNumberLength(c.clearances.height)>> >>)>>,
         <<"skids", JsonObjectLength(
            << <<"overhang", JsonObjectLength(
                  << <<"front", JsonNumberLength(c.skids.overhang.front)>>,
                     <<"back", JsonNumberLength(c.skids.overhang.back)>> >>)>>,
               <<"material", JsonStringLength(c.skids.material)>>,
               <<"spacing", JsonNumberLength(c.skids.spacing)>> >>)>>,
         <<"materials", JsonObjectLength(
            << <<"lumber", JsonObjectLength(
                  << <<"grade", JsonStringLength(c.materials.lumber.grade)>>,
                     <<"treatment", JsonStringLength(c.materials.lumber.treatment)>> >>)>>,
               <<"plywood", JsonObjectLength(
                  << <<"grade", JsonStringLength(c.materials.plywood.grade)>>,
                     <<"thickness", JsonNumberLength(c.materials.plywood.thickness)>> >>)>>,
               <<"hardware", JsonObjectLength(
                  << <<"coating", JsonStringLength(c.materials.hardware.coating)>> >>)>> >>)>> >>)

\* generateCadModel of the CAD engine: it never rejects
generateCadModel(c) ==
    LET geometryHandle == "crate-" \o ToString(JsonLength(c)) \o "-" \o c.templateVersion
    IN [geometryHandle |-> geometryHandle,
        previewUrl |-> "/previews/" \o geometryHandle \o ".png",
        warnings |-> <<>>]

----------------------------------------------------------------------------
(* Design-studio specification: the form is submitted, and every submission *)
(* advances from one await of onSubmit to the next. statusMessage is <<>>  *)
(* for null and <<text>> for a message.                                     *)

MaxSubmissions == 2

\* the values the form hands to onSubmit
FormValues ==
    { [product |-> [length |-> Whole(60)]],
      [product |-> [length |-> Whole(0) - Whole(5)]],
      [name |-> "ab", product |-> [length |-> Whole(72)]],
      [product |-> [length |-> Whole(72)], clearances |-> [width |-> Quarter(1)]],
      [name |-> "Pump crate", product |-> [length |-> Whole(72), weight |-> Whole(800)],
       clearances |-> [height |-> Quarter(10)]] }

\* the ids of the jobs the NX API answers with
JobIds == {"job-1", "job-2"}

\* the ids generateId() may return
GeneratedIds == {"cfg_a1b2c3d4"}

InitStudio ==
    /\ studio = [op |-> "DesignStudio",
                 store |-> [configuration |-> defaultConfiguration, designHistory |-> <<>>],
                 statusMessage |-> <<>>,
                 isSubmitting |-> FALSE,
                 errors |-> {},
                 submissions |-> <<>>]
    /\ config = Null
    /\ gen = Null
    /\ floor = Null
    /\ panel = Null
    /\ splice = Null
    /\ cleat = Null
    /\ instances = <<>>
    /\ call = Null

\* the submit button is pressed (it is disabled while isSubmitting): onSubmit
\* runs up to its await of safeParseAsync
Submit(values) ==
    /\ ~studio.isSubmitting
    /\ Len(studio.submissions) < MaxSubmissions
    /\ studio' = [studio EXCEPT
          !.errors = {},
          !.statusMessage = <<>>,
          !.submissions = Append(@,
              [configuration |-> studio.store.configuration,
               candidateConfig |-> CandidateConfig(studio.store.configuration, values),
               mergedConfig |-> <<>>,
               cad |-> <<>>,
               at |-> "safeParseAsync",
               calls |-> <<>>])]
    /\ UNCHANGED <<panel, splice, cleat, config, floor, gen, instances, call>>

\* safeParseAsync settles: the rejection branch of lines 102-114, or lines
\* 116-131 up to the await of generateCadModel
ParseSettled(s) ==
    /\ studio.submissions[s].at = "safeParseAsync"
    /\ LET sub == studio.submissions[s]
           mergedConfig == MergedConfig(sub.configuration, sub.candidateConfig)
       IN IF ~ParseSuccess(sub.candidateConfig)
          THEN studio' = [studio EXCEPT
                  !.errors = @ \cup SchemaIssues(sub.candidateConfig),
                  !.statusMessage =
                      <<"Please correct the highlighted fields before submitting.">>,
                  !.submissions[s].at = "rejected"]
          ELSE studio' = [studio EXCEPT
                  !.isSubmitting = TRUE,
                  !.statusMessage = <<"Generating CAD preview...">>,
                  !.store = setConfiguration(@, mergedConfig),
                  !.submissions[s].mergedConfig = mergedConfig,
                  !.submissions[s].cad = generateCadModel(mergedConfig),
                  !.submissions[s].calls = @ \o <<"setConfiguration", "generateCadModel">>,
                  !.submissions[s].at = "generateCadModel"]
    /\ UNCHANGED <<panel, splice, cleat, config, floor, gen, instances, call>>

\* generateCadModel settles: lines 131-134 up to the await of
\* requestExpressionGeneration
CadSettled(s) ==
    /\ studio.submissions[s].at = "generateCadModel"
    /\ studio' = [studio EXCEPT
          !.statusMessage = <<"Queuing NX expression job...">>,
          !.submissions[s].calls = @ \o <<"requestExpressionGeneration">>,
          !.submissions[s].at = "requestExpressionGeneration"]
    /\ UNCHANGED <<panel, splice, cleat, config, floor, gen, instances, call>>

\* requestExpressionGeneration settles with the job jobId (ok) or rejects:
\* lines 134-150, with the clock reading now
RequestSettled(s, ok, jobId, now, generated) ==
    /\ studio.submissions[s].at = "requestExpressionGeneration"
    /\ LET sub == studio.submissions[s]
           design == [configuration |-> sub.mergedConfig,
                      estimatedCost |-> 1250,
                      materialEfficiency |-> 88,
                      lastValidatedAt |-> toISOString(now)]
       IN IF ok
          THEN studio' = [studio EXCEPT
                  !.store = recordDesign(@, design, generated),
                  !.statusMessage = <<"NX job " \o jobId \o " queued. Geometry handle: "
                                      \o sub.cad.geometryHandle>>,
                  !.isSubmitting = FALSE,
                  !.submissions[s].calls = @ \o <<"recordDesign">>,
                  !.submissions[s].at = "recorded"]
          ELSE studio' = [studio EXCEPT
                  !.statusMessage =
                      <<"Failed to generate NX expressions. Please try again.">>,
                  !.isSubmitting = FALSE,
                  !.submissions[s].at = "failed"]
    /\ UNCHANGED <<panel, splice, cleat, config, floor, gen, instances, call>>

NextStudio ==
    \/ \E values \in FormValues : Submit(values)
    \/ \E s \in DOMAIN studio.submissions : ParseSettled(s)
    \/ \E s \in DOMAIN studio.submissions : CadSettled(s)
    \/ \E s \in DOMAIN studio.submissions, ok \in BOOLEAN, jobId \in JobIds,
          now \in 0..MaxClock, generated \in GeneratedIds :
          RequestSettled(s, ok, jobId, now, generated)

SpecStudio == InitStudio /\ [][NextStudio]_vars

----------------------------------------------------------------------------
(* Claims about the splicer and the cleat calculator (SpecSplice) *)

SectionsInside(layout) ==
    \A i \in DOMAIN layout.sheets :
        LET s == layout.sheets[i] IN
        /\ s.width > 0 /\ s.height > 0
        /\ s.x >= 0 /\ s.x + s.width <= layout.panelWidth
        /\ s.y >= 0 /\ s.y + s.height <= layout.panelHeight

SectionsDisjoint(layout) ==
    \A i, j \in DOMAIN layout.sheets :
        i < j =>
            LET s == layout.sheets[i]
                t == layout.sheets[j]
            IN \/ s.x + s.width <= t.x \/ t.x + t.width <= s.x
               \/ s.y + s.height <= t.y \/ t.y + t.height <= s.y

SectionArea(layout) ==
    SumSeq([i \in DOMAIN layout.sheets |-> layout.sheets[i].width * layout.sheets[i].height])

\* C1: the sections returned by calculateSpliceLayout, in either sheet
\* orientation, lie inside the panel, are pairwise disjoint in area and their
\* areas sum to panelWidth * panelHeight.
C1_SectionsTilePanel ==
    splice.op = "calculateSpliceLayout" =>
        /\ splice.result.isRotated = splice.allowRotation
        /\ SectionsInside(splice.result)
        /\ SectionsDisjoint(splice.result)
        /\ SectionArea(splice.result) = panel.width * panel.height

C1_Witness ==
    /\ splice.op = "calculateSpliceLayout"
    /\ splice.result.isRotated
    /\ Len(splice.result.sheets) >= 6
    /\ panel.width % MAX_SHEET_HEIGHT # 0
    /\ panel.height % MAX_SHEET_WIDTH # 0

\* C5: every section of a layout returned by calculateOptimizedSpliceLayout is
\* at most 48 x 96 in when the layout is not rotated and at most 96 x 48 in
\* when it is rotated.
C5_SheetSizeBound ==
    splice.op = "calculateOptimizedSpliceLayout" =>
        \A i \in DOMAIN splice.result.sheets :
            LET s == splice.result.sheets[i] IN
            IF splice.result.isRotated
            THEN s.width <= In(96) /\ s.height <= In(48)
            ELSE s.width <= In(48) /\ s.height <= In(96)

C5_Witness ==
    /\ splice.op = "calculateOptimizedSpliceLayout"
    /\ splice.result.isRotated
    /\ \E i \in DOMAIN splice.result.sheets :
          splice.result.sheets[i].width > In(48) /\ splice.result.sheets[i].height = In(48)

\* C10: with rotation allowed calculateOptimizedSpliceLayout returns the
\* rotated tiling exactly when that tiling is a single sheet without splices
\* or has strictly fewer than half the sheets of the non-rotated tiling;
\* otherwise, and whenever rotation is not allowed, it returns the
\* non-rotated tiling.
C10_RotationDecision ==
    splice.op = "calculateOptimizedSpliceLayout" =>
        LET normal == calculateSpliceLayout(panel.width, panel.height, panel.name, FALSE)
            rotated == calculateSpliceLayout(panel.width, panel.height, panel.name, TRUE)
            wantRotated ==
                /\ splice.allowRotation
                /\ \/ Len(rotated.sheets) = 1 /\ Len(rotated.splices) = 0
                   \/ 2 * Len(rotated.sheets) < Len(normal.sheets)
        IN splice.result = IF wantRotated THEN rotated ELSE normal

\* rotation allowed, two rotated sheets against four non-rotated ones: the
\* count is halved, not more than halved, and the non-rotated tiling is kept
C10_Witness ==
    /\ splice.op = "calculateOptimizedSpliceLayout"
    /\ splice.allowRotation
    /\ ~splice.result.isRotated
    /\ Len(splice.result.sheets) = 4
    /\ Len(calculateSpliceLayout(panel.width, panel.height, panel.name, TRUE).sheets) = 2

\* the vertical members of a cleat layout from left to right
VerticalMembers(layout) ==
    SelectSeq(layout.cleats, LAMBDA c : c.type = "perimeter" /\ c.position = "left")
    \o SelectSeq(layout.cleats, LAMBDA c : c.type = "intermediate")
    \o SelectSeq(layout.cleats, LAMBDA c : c.type = "perimeter" /\ c.position = "right")

\* C4: between the facing edges of every two adjacent vertical members (left
\* perimeter cleat, intermediate cleats, right perimeter cleat) of a panel
\* cleat layout there are at most 24 in.
C4_VerticalMemberGap ==
    cleat # Null =>
        LET m == VerticalMembers(cleat) IN
        /\ Len(m) >= 2
        /\ \A i \in 1..(Len(m) - 1) :
              RLe(RSub(m[i + 1].x, RAdd(m[i].x, RInt(m[i].width))), RInt(In(24)))

C4_Witness ==
    /\ cleat # Null
    /\ Len(VerticalMembers(cleat)) >= 5
    /\ \E i \in DOMAIN cleat.cleats :
          cleat.cleats[i].type = "intermediate" /\ cleat.cleats[i].x[2] > 1

----------------------------------------------------------------------------
(* Claims about the floorboard layout (SpecFloor) *)

\* C3: in every layout returned by getFloorboardLayout any two distinct
\* boards A, B satisfy A.position + A.width + 0.125 <= B.position or
\* B.position + B.width + 0.125 <= A.position.
C3_FloorboardsDoNotOverlap ==
    floor.op = "getFloorboardLayout" =>
        \A i, j \in DOMAIN floor.result :
            i # j =>
                LET a == floor.result[i]
                    b == floor.result[j]
                IN \/ a.position + a.width + Eighths(1) <= b.position
                   \/ b.position + b.width + Eighths(1) <= a.position

\* a layout of mixed widths with a custom board, filling the span exactly
C3_Witness ==
    /\ floor.op = "getFloorboardLayout"
    /\ Len(floor.result) >= 4
    /\ \E i \in DOMAIN floor.result : floor.result[i].isCustom
    /\ Cardinality({floor.result[i].width : i \in DOMAIN floor.result}) >= 3

\* C8: the floorboards are mirror-symmetric about the centre of the span
\* [panelThickness, panelThickness + internalLength]: every board has a board
\* of the same width on the mirrored interval.
C8_FloorboardsMirrorSymmetric ==
    floor.op = "getFloorboardLayout" =>
        LET lo == config.materials.panelThickness
            hi == config.materials.panelThickness + InternalLength(config)
        IN \A i \in DOMAIN floor.result :
              \E j \in DOMAIN floor.result :
                  /\ floor.result[j].width = floor.result[i].width
                  /\ floor.result[j].position - lo
                       = hi - (floor.result[i].position + floor.result[i].width)

----------------------------------------------------------------------------
(* Claims about the generated geometry (Spec) *)

\* the skid boxes of a generator, in the order they were emitted
SkidBoxes(g) == SelectSeq(g.boxes, LAMBDA b : b.type = "skid")

\* twice the centre X of a box
TwiceCentreX(b) == RAdd(b.point1.x, b.point2.x)

\* C2: the centre-to-centre X distance between every two adjacent emitted
\* skid boxes is at most the maxSpacing of getSkidSpacing for the weight.
C2_SkidSpacingWithinMax ==
    gen.op = "NXGenerator" =>
        LET skids == SkidBoxes(gen)
            maxSpacing == getSkidSpacing(config).maxSpacing
        IN \A i \in 1..(Len(skids) - 1) :
              RLe(RAbs(RSub(TwiceCentreX(skids[i + 1]), TwiceCentreX(skids[i]))),
                  RInt(2 * maxSpacing))

\* four or more skids spaced exactly at the maximum spacing
C2_Witness ==
    /\ gen.op = "NXGenerator"
    /\ Len(SkidBoxes(gen)) >= 4
    /\ RAbs(RSub(TwiceCentreX(SkidBoxes(gen)[2]), TwiceCentreX(SkidBoxes(gen)[1])))
         = RInt(2 * getSkidSpacing(config).maxSpacing)

\* C6: every non-suppressed box has point2 >= point1 in x, y and z (for
\* positive product dimensions, non-negative clearances, positive thickness).
C6_ActiveBoxesWellFormed ==
    (/\ gen.op = "NXGenerator"
     /\ config.product.length > 0 /\ config.product.width > 0 /\ config.product.height > 0
     /\ config.clearances.side >= 0 /\ config.clearances.end >= 0
     /\ config.clearances.top >= 0
     /\ config.materials.panelThickness > 0) =>
        \A i \in DOMAIN gen.boxes :
            ~gen.boxes[i].suppressed =>
                /\ RLe(gen.boxes[i].point1.x, gen.boxes[i].point2.x)
                /\ RLe(gen.boxes[i].point1.y, gen.boxes[i].point2.y)
                /\ RLe(gen.boxes[i].point1.z, gen.boxes[i].point2.z)

\* the smallest product of the sweep, with active skid, floor and plywood
\* boxes of the right end panel
C6_Witness ==
    /\ gen.op = "NXGenerator"
    /\ config.product.length = Eighths(1)
    /\ config.product.height = Eighths(1)
    /\ config.materials.panelThickness = Eighths(1)
    /\ \A t \in {"skid", "floor", "plywood"} :
          \E i \in DOMAIN gen.boxes : gen.boxes[i].type = t /\ ~gen.boxes[i].suppressed
    /\ \E i \in DOMAIN gen.boxes :
          /\ gen.boxes[i].type = "plywood"
          /\ gen.boxes[i].panelName = "RIGHT_END_PANEL"
          /\ ~gen.boxes[i].suppressed

\* centre(i) = -centre(n-1-i) for the skids in emitted order
SkidCentresMirrored(skids) ==
    \A i \in DOMAIN skids :
        TwiceCentreX(skids[i]) = RNeg(TwiceCentreX(skids[Len(skids) + 1 - i]))

\* the leftmost skid face is at -internalWidth/2 and the rightmost at +internalWidth/2
SkidOuterFacesOnEdges(skids, internalWidth) ==
    /\ \A i \in DOMAIN skids :
          /\ RLe(Rat(-internalWidth, 2), skids[i].point1.x)
          /\ RLe(skids[i].point2.x, Rat(internalWidth, 2))
    /\ \E i \in DOMAIN skids : skids[i].point1.x = Rat(-internalWidth, 2)
    /\ \E i \in DOMAIN skids : skids[i].point2.x = Rat(internalWidth, 2)

\* C9 as stated: the skid centres are mirror-symmetric about X = 0 and the
\* outer faces of the two outer skids are at -internalWidth/2 and
\* +internalWidth/2.
C9_SkidsSymmetricOuterFaces ==
    gen.op = "NXGenerator" =>
        /\ SkidCentresMirrored(SkidBoxes(gen))
        /\ SkidOuterFacesOnEdges(SkidBoxes(gen), InternalWidth(config))

\* C9 amended: the skid centres are mirror-symmetric about X = 0; the first
\* emitted skid has point1.x = -internalWidth/2 and the last emitted skid has
\* point2.x = +internalWidth/2; these are the outer faces of the row of skids
\* whenever the internal width is at least the skid width.
C9_SkidsSymmetricFlushWhenWideEnough ==
    gen.op = "NXGenerator" =>
        LET skids == SkidBoxes(gen)
            internalWidth == InternalWidth(config)
        IN /\ SkidCentresMirrored(skids)
           /\ skids[1].point1.x = Rat(-internalWidth, 2)
           /\ skids[Len(skids)].point2.x = Rat(internalWidth, 2)
           /\ internalWidth >= getSkidDimensions(config).width
                 => SkidOuterFacesOnEdges(skids, internalWidth)

\* four or more skids whose inner centres are not whole sixteenths of an inch
C9_Witness ==
    /\ gen.op = "NXGenerator"
    /\ Len(SkidBoxes(gen)) >= 4
    /\ InternalWidth(config) >= getSkidDimensions(config).width
    /\ \E i \in DOMAIN SkidBoxes(gen) : SkidBoxes(gen)[i].point1.x[2] > 1

----------------------------------------------------------------------------
(* Claims about sequences of constructions (SpecSeq) *)

----------------------------------------------------------------------------
(* Claims about the recorded splices (SpecSplice) *)

\* the number of splices of a layout with the given orientation
SpliceCount(layout, orientation) ==
    Cardinality({i \in DOMAIN layout.splices : layout.splices[i].orientation = orientation})

\* C11: a layout of r rows and c columns returned by calculateSpliceLayout
\* records r*(c-1) vertical splices (one per pair of horizontally adjacent
\* sections) and c*(r-1) horizontal splices (one per pair of vertically
\* adjacent sections).
C11_SplicePerAdjacentPair ==
    splice.op = "calculateSpliceLayout" =>
        LET layout == splice.result
            c == Ceil(layout.panelWidth, SheetWidthFor(layout.isRotated))
            r == Ceil(layout.panelHeight, SheetHeightFor(layout.isRotated))
        IN /\ SpliceCount(layout, "vertical") = r * (c - 1)
           /\ SpliceCount(layout, "horizontal") = c * (r - 1)

\* the splice cleats of a cleat layout, in the order of the splices
SpliceCleats(layout) == SelectSeq(layout.cleats, LAMBDA c : c.type = "splice")

\* a splice cleat of the orientation whose width interval contains the line
SeamBacked(layout, orientation, line) ==
    \E k \in DOMAIN layout.cleats :
        LET c == layout.cleats[k]
            lo == IF orientation = "vertical" THEN c.x ELSE c.y
        IN /\ c.type = "splice"
           /\ c.orientation = orientation
           /\ RLe(lo, RInt(line))
           /\ RLe(RInt(line), RAdd(lo, RInt(c.width)))

\* C12: in a panel of the composer (optimized layout with rotation allowed,
\* then its cleat layout) every seam between two adjacent sections lies in
\* the width interval of a splice cleat of the seam's orientation, and every
\* recorded splice has its own splice cleat centred on it.
C12_SeamsBackedBySpliceCleats ==
    (cleat # Null /\ splice.allowRotation) =>
        LET sheets == splice.result.sheets
            splices == splice.result.splices
            cleats == SpliceCleats(cleat)
        IN /\ \A i, j \in DOMAIN sheets :
                 (sheets[i].y = sheets[j].y /\ sheets[i].x + sheets[i].width = sheets[j].x)
                     => SeamBacked(cleat, "vertical", sheets[j].x)
           /\ \A i, j \in DOMAIN sheets :
                 (sheets[i].x = sheets[j].x /\ sheets[i].y + sheets[i].height = sheets[j].y)
                     => SeamBacked(cleat, "horizontal", sheets[j].y)
           /\ Len(cleats) = Len(splices)
           /\ \A k \in DOMAIN splices :
                 /\ cleats[k].orientation = splices[k].orientation
                 /\ IF splices[k].orientation = "vertical"
                    THEN RAdd(cleats[k].x, RInt(CLEAT_WIDTH \div 2)) = RInt(splices[k].x)
                    ELSE RAdd(cleats[k].y, RInt(CLEAT_WIDTH \div 2)) = RInt(splices[k].y)

----------------------------------------------------------------------------
(* Claims about the fixed slots of the box list (Spec) *)

CapPanelNames ==
    <<"FRONT_PANEL", "BACK_PANEL", "LEFT_END_PANEL", "RIGHT_END_PANEL", "TOP_PANEL">>

FloorBoxes(g) == SelectSeq(g.boxes, LAMBDA b : b.type = "floor")

PlywoodBoxesOf(g, panelName) ==
    SelectSeq(g.boxes, LAMBDA b : b.type = "plywood" /\ b.panelName = panelName)

ZeroVolumePlaceholder(b) == b.suppressed /\ b.point1 = b.point2

\* C13: the box list holds exactly 40 floor boxes FLOORBOARD_1..FLOORBOARD_40
\* and, for each of the five panels, exactly 6 plywood boxes
\* <PANEL>_PLY_1..<PANEL>_PLY_6; every slot beyond the laid boards, or beyond
\* the panel's sections, is suppressed and has point1 = point2.
C13_FixedSlots ==
    gen.op = "NXGenerator" =>
        /\ LET floorBoxes == FloorBoxes(gen)
               laid == Len(getFloorboardLayout(config))
           IN /\ Len(floorBoxes) = 40
              /\ \A k \in DOMAIN floorBoxes :
                    /\ floorBoxes[k].name = "FLOORBOARD_" \o ToString(k)
                    /\ k > laid => ZeroVolumePlaceholder(floorBoxes[k])
        /\ Len(gen.panelSpliceLayouts) = 5
        /\ \A p \in DOMAIN CapPanelNames :
              LET ply == PlywoodBoxesOf(gen, CapPanelNames[p])
                  sections == Len(gen.panelSpliceLayouts[p].sheets)
              IN /\ gen.panelSpliceLayouts[p].panelName = CapPanelNames[p]
                 /\ Len(ply) = 6
                 /\ \A k \in DOMAIN ply :
                       /\ ply[k].name = CapPanelNames[p] \o "_PLY_" \o ToString(k)
                       /\ k > sections => ZeroVolumePlaceholder(ply[k])

\* a crate with unused floorboard slots, a panel that uses all six plywood
\* slots and a panel that leaves some of them unused
C13_Witness ==
    /\ gen.op = "NXGenerator"
    /\ \E k \in DOMAIN FloorBoxes(gen) : FloorBoxes(gen)[k].suppressed
    /\ \E k \in DOMAIN FloorBoxes(gen) : ~FloorBoxes(gen)[k].suppressed
    /\ \E p \in DOMAIN CapPanelNames : Len(gen.panelSpliceLayouts[p].sheets) = 6
    /\ \E p \in DOMAIN CapPanelNames : Len(gen.panelSpliceLayouts[p].sheets) < 6

----------------------------------------------------------------------------
(* Claims about the lumber tables (SpecTable) *)

SkidSize(nominal, height, width) == [height |-> height, width |-> width, nominal |-> nominal]

RatingsCover(nominal, weight, internalLength) ==
    CASE nominal = "2x6" -> weight <= 2000 /\ internalLength <= In(24)
      [] nominal = "2x8" -> weight <= 4000 /\ internalLength <= In(36)
      [] nominal = "2x10" -> weight <= 8000 /\ internalLength <= In(48)
      [] nominal = "2x12" -> TRUE

\* the place of a nominal size in the order of widths
WidthRank(nominal) ==
    CASE nominal = "2x6" -> 1 [] nominal = "2x8" -> 2 [] nominal = "2x10" -> 3
      [] nominal = "2x12" -> 4

Narrowest(nominals) == CHOOSE n \in nominals : \A o \in nominals : WidthRank(n) <= WidthRank(o)

Widest(nominals) == CHOOSE n \in nominals : \A o \in nominals : WidthRank(n) >= WidthRank(o)

\* the allowed nominal sizes whose ratings cover the product of the configuration
QualifyingLumber(cfg) ==
    {n \in AvailableLumber(cfg) : RatingsCover(n, cfg.product.weight, InternalLength(cfg))}

----------------------------------------------------------------------------
(* Claims about the serialised output (SpecExport) *)

\* the texts returned so far by exportNXExpressions of the one generator
ExportedTexts == IF call.op = "exportNXExpressions" THEN call.texts ELSE <<>>

\* C16 as stated: serialising the same composed geometry any number of times,
\* at any moments, always yields byte-identical text.
C16_ExportByteIdentical ==
    \A i, j \in DOMAIN ExportedTexts : ExportedTexts[i] = ExportedTexts[j]

\* C16: the texts of any two exports of the same composed geometry have the
\* same lines except for their second line, which is "# Generated: " followed
\* by the time of the export; two exports made at the same instant are
\* byte-identical.
C16_ExportIdenticalExceptGeneratedLine ==
    \A i, j \in DOMAIN ExportedTexts :
        /\ Len(ExportedTexts[i]) = Len(ExportedTexts[j])
        /\ \A k \in DOMAIN ExportedTexts[i] :
              k # 2 => ExportedTexts[i][k] = ExportedTexts[j][k]
        /\ ExportedTexts[i][2] = "# Generated: " \o toISOString(call.times[i])
        /\ call.times[i] = call.times[j] => ExportedTexts[i] = ExportedTexts[j]

\* the same generator was serialised twice, at two different instants
C16_Witness ==
    /\ Len(ExportedTexts) = 2
    /\ call.times[1] # call.times[2]
    /\ ExportedTexts[1] # ExportedTexts[2]
    /\ Len(ExportedTexts[1]) > 100

\* the lines of the last text that are entries (not comments, not empty)
EntryLines ==
    IF ExportedTexts = <<>> THEN {}
    ELSE LET text == ExportedTexts[Len(ExportedTexts)]
         IN {text[k] : k \in {n \in DOMAIN text : text[n] # "" /\ Head(text[n]) # "#"}}

\* C17: for every suppressed box the exported text has the entry line
\* <Name>_SUPPRESSED=TRUE, and it has no such line for a box that is not
\* suppressed.
C17_SuppressedBoxesFlagged ==
    ExportedTexts # <<>> =>
        \A i \in DOMAIN gen.boxes :
            gen.boxes[i].suppressed <=> (gen.boxes[i].name \o "_SUPPRESSED=TRUE") \in EntryLines

\* the rows returned by generateBOM
BOM == IF call.op = "generateBOM" THEN call.result ELSE <<>>

\* the nominal sizes of the generator's floorboard layout
LayoutNominals == {b.nominal : b \in Range(getFloorboardLayout(gen.config))}

\* the boxes of the generator that are floorboards in use
ActiveFloorBoxes == SelectSeq(gen.boxes, LAMBDA b : b.type = "floor" /\ ~b.suppressed)

\* C18: generateBOM returns, in this order, one Skid row whose quantity is
\* the number of skid boxes; one floorboard row per distinct nominal size of
\* the layout, their quantities adding up to the number of active floorboard
\* boxes; one plywood-sheet row whose quantity is the sum of the panels'
\* sheet counts; one row per panel (five) carrying the panel's sheet count
\* and splice count; and one cleat row.
C18_BOMRows ==
    BOM # <<>> =>
        LET n == Cardinality(LayoutNominals)
            layouts == gen.panelSpliceLayouts
        IN /\ Len(BOM) = n + 8
           /\ BOM[1].item = "Skid"
           /\ BOM[1].quantity = Len(SkidBoxes(gen))
           /\ \A k \in 2..(n + 1) :
                 /\ BOM[k].item \in {"Floorboard", "Custom Floorboard"}
                 /\ BOM[k].quantity >= 1
                 /\ \A m \in 2..(n + 1) : m # k => BOM[m].size # BOM[k].size
           /\ SumSeq([k \in 1..n |-> BOM[k + 1].quantity]) = Len(ActiveFloorBoxes)
           /\ BOM[n + 2].item = "Plywood Sheet (48\"x96\")"
           /\ BOM[n + 2].quantity = SumSeq([i \in DOMAIN layouts |-> layouts[i].sheetCount])
           /\ Len(layouts) = 5
           /\ \A i \in 1..5 :
                 /\ BOM[n + 2 + i].item = ReplaceUnderscores(layouts[i].panelName)
                 /\ BOM[n + 2 + i].material = "Plywood Panel"
                 /\ BOM[n + 2 + i].quantity = 1
                 /\ BOM[n + 2 + i].note = "Requires " \o ToString(layouts[i].sheetCount)
                        \o " sheets, " \o ToString(Len(layouts[i].splices)) \o " splices"
                 /\ \A j \in 1..5 : j # i => layouts[j].panelName # layouts[i].panelName
           /\ BOM[n + 8].item = "Cleats (1x4)"
           /\ \A k \in 1..(n + 7) : BOM[k].item # "Cleats (1x4)"
           /\ \A k \in 2..(n + 8) : BOM[k].item # "Skid"

\* a bill of materials with three floorboard rows, a custom board among them,
\* for a layout in which boards of the same nominal size are not all adjacent
C18_Witness ==
    /\ BOM # <<>>
    /\ Cardinality(LayoutNominals) = 3
    /\ \E k \in DOMAIN BOM : BOM[k].item = "Custom Floorboard"
    /\ \E k \in DOMAIN BOM : BOM[k].item = "Floorboard" /\ BOM[k].quantity > 2
    /\ BOM[1].quantity >= 3
    /\ \E i, j, k \in DOMAIN ActiveFloorBoxes :
          /\ i < j /\ j < k
          /\ ActiveFloorBoxes[i].metadata = ActiveFloorBoxes[k].metadata
          /\ ActiveFloorBoxes[i].metadata # ActiveFloorBoxes[j].metadata

----------------------------------------------------------------------------
(* Claims about the design studio (SpecStudio) *)

\* submission s leaves the await named from for the position named to
Moves(s, from, to) ==
    /\ s \in DOMAIN studio.submissions
    /\ studio.submissions[s].at = from
    /\ studio'.submissions[s].at = to

\* C19: a submission that fails validation sets the status message to
\* 'Please correct the highlighted fields before submitting.', has called
\* none of setConfiguration, generateCadModel, requestExpressionGeneration
\* and recordDesign, and leaves the store's configuration and designHistory
\* unchanged; designHistory grows only when a submission whose configuration
\* passed the schema has its request answered, and then by exactly one
\* design, the one of that submission.
C19_OnlyValidSubmissionsRecorded ==
    [][ /\ \A s \in DOMAIN studio.submissions :
             Moves(s, "safeParseAsync", "rejected") =>
                /\ studio'.statusMessage =
                      <<"Please correct the highlighted fields before submitting.">>
                /\ studio'.submissions[s].calls = <<>>
                /\ studio'.store = studio.store
        /\ studio'.store.designHistory # studio.store.designHistory =>
             \E s \in DOMAIN studio.submissions :
                /\ Moves(s, "requestExpressionGeneration", "recorded")
                /\ SchemaIssues(studio.submissions[s].candidateConfig) = {}
                /\ SchemaIssues(studio'.store.designHistory[1].configuration) = {}
                /\ studio'.store.designHistory[1].configuration
                      = studio.submissions[s].mergedConfig
                /\ Tail(studio'.store.designHistory) = studio.store.designHistory
                /\ studio'.submissions[s].calls =
                      <<"setConfiguration", "generateCadModel",
                        "requestExpressionGeneration", "recordDesign">>
        /\ \A s \in DOMAIN studio.submissions :
             Moves(s, "requestExpressionGeneration", "recorded") =>
                Len(studio'.store.designHistory) = Len(studio.store.designHistory) + 1
      ]_vars

\* an invalid submission was rejected and the corrected one that followed it
\* has recorded its design
C19_Witness ==
    /\ studio.op = "DesignStudio"
    /\ Len(studio.submissions) = 2
    /\ studio.submissions[1].at = "rejected"
    /\ studio.submissions[1].calls = <<>>
    /\ studio.submissions[2].at = "recorded"
    /\ Len(studio.store.designHistory) = 1
    /\ studio.store.configuration = studio.submissions[2].mergedConfig
    /\ studio.store.configuration # defaultConfiguration

----------------------------------------------------------------------------
(* Claims about the skid count (SpecTable) *)

\* the minimum count of the spacing-table row of the skid chosen for the
\* product weight
TableMinimumCount(cfg) ==
    LET nominal == getSkidDimensions(cfg).nominal
        weight == cfg.product.weight
    IN CASE nominal \in {"3x4", "4x4"} -> 3
         [] nominal = "4x6" -> IF weight <= 6000 THEN 3 ELSE 4
         [] nominal = "6x6" -> IF weight <= 30000 THEN 4 ELSE 5
         [] nominal = "8x8" -> 5

\* the internal width is at most one maximum spacing plus one skid width
FitsOneInterval(cfg) ==
    InternalWidth(cfg) <= getSkidSpacing(cfg).maxSpacing + getSkidDimensions(cfg).width

\* C20 as stated: the skid count returned by getSkidCount is never less than
\* the minimum count of the spacing-table row, for every internal width.
C20_SkidCountAtLeastTableMinimum ==
    call.op = "getSkidCount" => call.result >= TableMinimumCount(config)

\* C20: getSkidCount returns 2 when the internal width is at most the row's
\* maximum spacing plus the skid width, and otherwise a count that is not
\* less than the minimum count of the spacing-table row.
C20_SkidCountTwoOrAtLeastTableMinimum ==
    call.op = "getSkidCount" =>
        IF FitsOneInterval(config) THEN call.result = 2
        ELSE call.result >= TableMinimumCount(config)

\* a crate just wider than one interval of an 8x8 row: the spacing alone
\* asks for three skids and the row's minimum makes it five
C20_Witness ==
    /\ call.op = "getSkidCount"
    /\ ~FitsOneInterval(config)
    /\ TableMinimumCount(config) = 5
    /\ call.result = 5
    /\ Ceil(InternalWidth(config) - getSkidDimensions(config).width,
            getSkidSpacing(config).maxSpacing) + 1 < 5

----------------------------------------------------------------------------
(* Further claims about the floorboard layout (SpecFloor) *)

\* the distance from the end of board i of a position-sorted layout to the
\* start of board i + 1
BoardDistance(layout, i) ==
    layout[i + 1].position - (layout[i].position + layout[i].width)

\* the adjacent pairs of a layout, each named by its first index
AdjacentPairs(layout) == {i \in DOMAIN layout : i + 1 \in DOMAIN layout}

\* C21 (as stated): in the position-sorted floorboard layout the distance from
\* the end of each board to the start of the next board is exactly 0.125 in
\* for every adjacent pair.
C21_GapExactlyEighth ==
    floor.op = "getFloorboardLayout" =>
        \A i \in AdjacentPairs(floor.result) :
            BoardDistance(floor.result, i) = Eighths(1)

\* C21 (amended): every adjacent pair of the position-sorted layout is
\* separated by at least 0.125 in; exactly one pair, the one where the boards
\* dealt from the front meet the boards dealt from the back, is separated by
\* 0.25 in or more, and every other pair by exactly 0.125 in.
C21_GapEighthExceptMiddlePair ==
    floor.op = "getFloorboardLayout" =>
        LET pairs == AdjacentPairs(floor.result)
            wide == {i \in pairs : BoardDistance(floor.result, i) # Eighths(1)}
        IN /\ \A i \in pairs : BoardDistance(floor.result, i) >= Eighths(1)
           /\ pairs # {} => Cardinality(wide) = 1
           /\ \A i \in wide : BoardDistance(floor.result, i) >= Eighths(2)

\* a layout of at least four boards whose middle pair is 0.25 in apart
C21_Witness ==
    /\ floor.op = "getFloorboardLayout"
    /\ Len(floor.result) >= 4
    /\ \E i \in AdjacentPairs(floor.result) :
          /\ BoardDistance(floor.result, i) = Eighths(2)
          /\ \A j \in AdjacentPairs(floor.result) \ {i} :
                BoardDistance(floor.result, j) = Eighths(1)

\* the widths of a layout, in its order
Widths(layout) == [i \in DOMAIN layout |-> layout[i].width]

\* widths[lo..hi] never grows
NonIncreasing(widths, lo, hi) ==
    \A i \in lo..(hi - 1) : widths[i] >= widths[i + 1]

\* widths[lo..hi] never shrinks
NonDecreasing(widths, lo, hi) ==
    \A i \in lo..(hi - 1) : widths[i] <= widths[i + 1]

\* C22: in the position-sorted floorboard layout the widths are non-increasing
\* from the front edge towards the centre and non-decreasing from the centre
\* towards the back edge: there is an index k with widths[1..k] non-increasing
\* and widths[k..n] non-decreasing. The front run is the first ceil(n / 2)
\* boards and the back run the rest, and a custom board is one of the two
\* boards where the runs meet.
C22_WidthsDecreaseTowardsCentre ==
    floor.op = "getFloorboardLayout" =>
        LET widths == Widths(floor.result)
            n == Len(widths)
            front == (n + 1) \div 2
        IN /\ n > 0 => \E k \in 1..n : /\ NonIncreasing(widths, 1, k)
                                       /\ NonDecreasing(widths, k, n)
           /\ NonIncreasing(widths, 1, front)
           /\ NonDecreasing(widths, front + 1, n)
           /\ \A i \in 1..n : floor.result[i].isCustom => i \in {front, front + 1}

\* a layout of five or more boards with a custom board whose widths fall
\* from both edges towards the centre
C22_Witness ==
    /\ floor.op = "getFloorboardLayout"
    /\ Len(floor.result) >= 5
    /\ \E i \in DOMAIN floor.result : floor.result[i].isCustom
    /\ LET widths == Widths(floor.result)
           front == (Len(widths) + 1) \div 2
       IN /\ widths[1] > widths[front]
          /\ widths[Len(widths)] > widths[front + 1]
          /\ Cardinality({widths[i] : i \in 1..front}) >= 2

\* the boards of a layout that are standard lumber
StandardBoards(layout) == SelectSeq(layout, LAMBDA b : ~b.isCustom)

\* the boards of a layout that are marked custom
CustomBoards(layout) == SelectSeq(layout, LAMBDA b : b.isCustom)

\* the span the greedy fill has left when it has placed the standard boards of
\* the layout: the internal length less width + 0.125 in for each of them
ResidualSpan(cfg, layout) ==
    LET standard == StandardBoards(layout)
    IN InternalLength(cfg)
         - SumSeq([i \in DOMAIN standard |-> standard[i].width + Eighths(1)])

\* the fill stopped although the limit of 40 boards was not reached, that is,
\* because no standard width fits the residual span
StoppedForFit(layout) == Len(StandardBoards(layout)) < MaxBoards

\* C23 (as stated): whenever the greedy fill stops because no allowed standard
\* width fits and the residual span is at least 0.25 in, the layout contains
\* exactly one custom board, of width residual - 0.125; no layout contains
\* more than one custom board.
C23_CustomBoardFromQuarterInch ==
    floor.op = "getFloorboardLayout" =>
        LET custom == CustomBoards(floor.result)
            residual == ResidualSpan(config, floor.result)
        IN /\ Len(custom) <= 1
           /\ (StoppedForFit(floor.result) /\ residual >= Eighths(2)) =>
                 /\ Len(custom) = 1
                 /\ custom[1].width = residual - Eighths(1)

\* C23 (amended): no layout contains more than one custom board; when the
\* fill stops because no standard width fits, the layout contains a custom
\* board exactly if the residual span is at least 0.375 in, and its width is
\* residual - 0.125 (so at least 0.25 in).
C23_CustomBoardFromThreeEighths ==
    floor.op = "getFloorboardLayout" =>
        LET custom == CustomBoards(floor.result)
            residual == ResidualSpan(config, floor.result)
        IN /\ Len(custom) <= 1
           /\ (StoppedForFit(floor.result) /\ residual >= Eighths(3)) =>
                 /\ Len(custom) = 1
                 /\ custom[1].width = residual - Eighths(1)
           /\ residual < Eighths(3) => Len(custom) = 0
           /\ \A i \in DOMAIN custom : custom[i].width >= Eighths(2)

\* a fill that stopped with 0.375 in or more left and cut a custom board
C23_Witness ==
    /\ floor.op = "getFloorboardLayout"
    /\ StoppedForFit(floor.result)
    /\ Len(StandardBoards(floor.result)) >= 2
    /\ ResidualSpan(config, floor.result) >= Eighths(3)
    /\ Len(CustomBoards(floor.result)) = 1

----------------------------------------------------------------------------
(* Further claims about the splice layout and the cleats (SpecSplice) *)

\* the panel is an exact multiple of the sheet size of the returned layout in
\* both directions
ExactMultiple(layout) ==
    /\ layout.panelWidth % SheetWidthFor(layout.isRotated) = 0
    /\ layout.panelHeight % SheetHeightFor(layout.isRotated) = 0

\* C24 (as stated): a panel whose width is an exact multiple of the sheet
\* width and whose height is an exact multiple of the sheet height yields a
\* layout with zero splices; in particular a panel of exactly 48 x 96 in
\* yields sheetCount = 1 and zero splices.
C24_ExactMultiplesHaveNoSplices ==
    splice # Null =>
        /\ ExactMultiple(splice.result) => Len(splice.result.splices) = 0
        /\ (splice.op = "calculateOptimizedSpliceLayout"
              /\ panel.width = In(48) /\ panel.height = In(96)) =>
                 splice.result.sheetCount = 1 /\ Len(splice.result.splices) = 0

\* C24 (amended): a layout of a single sheet has zero splices, and a panel of
\* exactly 48 x 96 in yields sheetCount = 1 and zero splices whether rotation
\* is allowed or not; a panel that is an exact multiple of the sheet size with
\* c >= 2 columns and r rows records r * (c - 1) vertical splices, one for
\* every pair of horizontally adjacent sheets, so it has splices.
C24_SingleSheetHasNoSplices ==
    splice # Null =>
        LET layout == splice.result
            c == Ceil(layout.panelWidth, SheetWidthFor(layout.isRotated))
            r == Ceil(layout.panelHeight, SheetHeightFor(layout.isRotated))
        IN /\ layout.sheetCount = Len(layout.sheets)
           /\ layout.sheetCount = 1 => Len(layout.splices) = 0
           /\ (splice.op = "calculateOptimizedSpliceLayout"
                 /\ panel.width = In(48) /\ panel.height = In(96)) =>
                    layout.sheetCount = 1 /\ Len(layout.splices) = 0
           /\ (ExactMultiple(layout) /\ c >= 2) =>
                 /\ SpliceCount(layout, "vertical") = r * (c - 1)
                 /\ Len(layout.splices) > 0

\* the optimized layout of a 48 x 96 in panel with rotation allowed
C24_Witness ==
    /\ splice.op = "calculateOptimizedSpliceLayout"
    /\ splice.allowRotation
    /\ panel.width = In(48) /\ panel.height = In(96)
    /\ splice.result.sheetCount = 1
    /\ splice.result.splices = <<>>

\* the centreline of a vertical cleat
Centreline(c) == RAdd(c.x, Rat(c.width, 2))

\* the distance between the centrelines of vertical members i and i + 1
CentreDistance(m, i) == RSub(Centreline(m[i + 1]), Centreline(m[i]))

\* C25 (as stated): the distance between the centrelines of every two
\* adjacent vertical cleats (left perimeter, intermediates, right perimeter)
\* of a panel is at most 24 in.
C25_CentrelinesWithin24 ==
    cleat # Null =>
        LET m == VerticalMembers(cleat)
        IN \A i \in 1..(Len(m) - 1) : RLe(CentreDistance(m, i), RInt(In(24)))

\* C25 (amended): the centrelines of two adjacent intermediate cleats are at
\* most 24 in apart; a perimeter cleat and the intermediate cleat next to it
\* are at most 25.75 in apart, and the two perimeter cleats of a panel without
\* intermediate cleats at most 27.5 in (24 in clear between the cleats).
C25_CentrelinesWithin24PlusCleat ==
    cleat # Null =>
        LET m == VerticalMembers(cleat)
        IN \A i \in 1..(Len(m) - 1) :
              LET limit == IF m[i].type = "intermediate" /\ m[i + 1].type = "intermediate"
                           THEN In(24)
                           ELSE IF Len(m) > 2
                           THEN In(24) + CLEAT_WIDTH \div 2
                           ELSE In(24) + CLEAT_WIDTH
              IN RLe(CentreDistance(m, i), RInt(limit))

\* intermediate cleats exactly 24 in apart and the perimeter cleats 25.75 in
\* from their neighbours
C25_Witness ==
    /\ cleat # Null
    /\ LET m == VerticalMembers(cleat)
       IN /\ Len(m) >= 4
          /\ CentreDistance(m, 1) = RInt(In(24) + CLEAT_WIDTH \div 2)
          /\ CentreDistance(m, 2) = RInt(In(24))

----------------------------------------------------------------------------
(* Further claims about the generated geometry (Spec) *)

\* the non-suppressed plywood boxes of a panel, in emitted order
ActivePlywood(g, panelName) ==
    SelectSeq(PlywoodBoxesOf(g, panelName), LAMBDA b : ~b.suppressed)

\* the rectangle of a plywood box in the plane of its panel: x and width along
\* the panel's first axis, y and height along its second
PanelRect(box) ==
    IF box.panelName \in {"FRONT_PANEL", "BACK_PANEL"}
    THEN [x |-> box.point1.x, y |-> box.point1.z,
          width |-> RSub(box.point2.x, box.point1.x),
          height |-> RSub(box.point2.z, box.point1.z)]
    ELSE IF box.panelName \in {"LEFT_END_PANEL", "RIGHT_END_PANEL"}
    THEN [x |-> box.point1.y, y |-> box.point1.z,
          width |-> RSub(box.point2.y, box.point1.y),
          height |-> RSub(box.point2.z, box.point1.z)]
    ELSE [x |-> box.point1.x, y |-> box.point1.y,
          width |-> RSub(box.point2.x, box.point1.x),
          height |-> RSub(box.point2.y, box.point1.y)]

\* box k of the active boxes is section k of the layout, moved to the panel's
\* place: same width and height, same offset from the first section
RepresentsSection(active, sheets, k) ==
    LET r == PanelRect(active[k])
        r1 == PanelRect(active[1])
    IN /\ r.width = RInt(sheets[k].width)
       /\ r.height = RInt(sheets[k].height)
       /\ RSub(r.x, r1.x) = RInt(sheets[k].x - sheets[1].x)
       /\ RSub(r.y, r1.y) = RInt(sheets[k].y - sheets[1].y)

\* the area of the active boxes of a panel, in the plane of the panel
ActiveArea(active) ==
    SumSeq([k \in DOMAIN active |->
              LET r == PanelRect(active[k]) IN (r.width[1] * r.height[1])
                                               \div (r.width[2] * r.height[2])])

\* the <panel>_sheet_count expression
SheetCountExpression(g, panelName) ==
    MapGetInt(g.expressions, ToLowerCase(panelName) \o "_sheet_count")

\* C26: for every panel the non-suppressed plywood boxes are in
\* one-to-one correspondence with the sections of the panel's splice layout:
\* their number equals the panel's sheetCount (the <panel>_sheet_count
\* expression), each section is represented by one active box of the same
\* width and height, and the active boxes cover the whole panel rectangle.
C26_ActivePlywoodMatchesSections ==
    gen.op = "NXGenerator" =>
        \A p \in DOMAIN CapPanelNames :
            LET layout == gen.panelSpliceLayouts[p]
                active == ActivePlywood(gen, CapPanelNames[p])
            IN /\ Len(active) = layout.sheetCount
               /\ SheetCountExpression(gen, CapPanelNames[p]) = layout.sheetCount
               /\ \A k \in DOMAIN layout.sheets :
                     k \in DOMAIN active /\ RepresentsSection(active, layout.sheets, k)
               /\ ActiveArea(active) = layout.panelWidth * layout.panelHeight

\* the non-suppressed boxes of a generator, in emitted order
ActiveBoxes(g) == SelectSeq(g.boxes, LAMBDA b : ~b.suppressed)

\* the open intervals (a1, a2) and (b1, b2) meet
IntervalsOverlap(a1, a2, b1, b2) == RLt(a1, b2) /\ RLt(b1, a2)

\* the interiors of two boxes meet
BoxesOverlap(a, b) ==
    /\ IntervalsOverlap(a.point1.x, a.point2.x, b.point1.x, b.point2.x)
    /\ IntervalsOverlap(a.point1.y, a.point2.y, b.point1.y, b.point2.y)
    /\ IntervalsOverlap(a.point1.z, a.point2.z, b.point1.z, b.point2.z)

\* positive product dimensions, non-negative clearances, positive thickness
ValidDimensions(cfg) ==
    /\ cfg.product.length > 0 /\ cfg.product.width > 0 /\ cfg.product.height > 0
    /\ cfg.clearances.side >= 0 /\ cfg.clearances.end >= 0 /\ cfg.clearances.top >= 0
    /\ cfg.materials.panelThickness > 0

\* C27: for every configuration with positive product
\* dimensions, non-negative clearances and positive panel thickness the
\* interiors of any two non-suppressed boxes are disjoint.
C27_ActiveBoxesDisjoint ==
    (gen.op = "NXGenerator" /\ ValidDimensions(config)) =>
        LET active == ActiveBoxes(gen)
        IN \A i, j \in DOMAIN active : i < j => ~BoxesOverlap(active[i], active[j])

\* a corner point lies inside the envelope of the overall-dimension
\* expressions
InsideEnvelope(g, point) ==
    LET overallWidth == MapGetInt(g.expressions, "overall_width")
        overallLength == MapGetInt(g.expressions, "overall_length")
        overallHeight == MapGetInt(g.expressions, "overall_height")
    IN /\ RLe(Rat(-overallWidth, 2), point.x) /\ RLe(point.x, Rat(overallWidth, 2))
       /\ RLe(RInt(0), point.y) /\ RLe(point.y, RInt(overallLength))
       /\ RLe(RInt(0), point.z) /\ RLe(point.z, RInt(overallHeight))

\* both corner points of a box lie inside the envelope
BoxInsideEnvelope(g, box) == InsideEnvelope(g, box.point1) /\ InsideEnvelope(g, box.point2)

\* an active floorboard lies between the inside faces of the front and the
\* back panel
FloorboardInsideSpan(cfg, box) ==
    /\ RLe(RInt(cfg.materials.panelThickness), box.point1.y)
    /\ RLe(box.point2.y, RInt(cfg.materials.panelThickness + InternalLength(cfg)))

\* C28 (as stated): every non-suppressed box lies inside the crate envelope
\* given by the overall-dimension expressions, and every active floorboard
\* lies within panelThickness <= y <= panelThickness + internalLength.
C28_ActiveBoxesInsideEnvelope ==
    gen.op = "NXGenerator" =>
        LET active == ActiveBoxes(gen)
        IN \A i \in DOMAIN active :
              /\ BoxInsideEnvelope(gen, active[i])
              /\ active[i].type = "floor" => FloorboardInsideSpan(config, active[i])

\* C28 (amended): every non-suppressed floorboard and plywood box lies inside
\* the envelope, every active floorboard lies within panelThickness <= y <=
\* panelThickness + internalLength, and the skids lie inside the envelope
\* exactly when the skid width is at most internalWidth + panelThickness.
C28_ActiveBoxesInsideEnvelopeWhenSkidFits ==
    gen.op = "NXGenerator" =>
        LET active == ActiveBoxes(gen)
            skidFits == getSkidDimensions(config).width
                          <= InternalWidth(config) + config.materials.panelThickness
        IN \A i \in DOMAIN active :
              /\ active[i].type # "skid" => BoxInsideEnvelope(gen, active[i])
              /\ active[i].type = "skid" => (BoxInsideEnvelope(gen, active[i]) <=> skidFits)
              /\ active[i].type = "floor" => FloorboardInsideSpan(config, active[i])

\* a crate with three or more skids, a custom floorboard and a side panel of
\* two or more sheets whose top edge is at the overall height less the top
\* panel
C28_Witness ==
    /\ gen.op = "NXGenerator"
    /\ Len(SkidBoxes(gen)) >= 3
    /\ \E i \in DOMAIN gen.boxes :
          /\ gen.boxes[i].type = "floor" /\ ~gen.boxes[i].suppressed
          /\ gen.boxes[i].point2.y
               = RInt(config.materials.panelThickness + InternalLength(config))
    /\ \E i \in DOMAIN gen.boxes :
          /\ gen.boxes[i].type = "plywood" /\ ~gen.boxes[i].suppressed
          /\ gen.boxes[i].panelName = "RIGHT_END_PANEL"
          /\ gen.boxes[i].plywoodPieceIndex >= 1
          /\ gen.boxes[i].point2.x = Rat(MapGetInt(gen.expressions, "overall_width"), 2)
          /\ gen.boxes[i].point2.z
               = RInt(MapGetInt(gen.expressions, "overall_height")
                        - config.materials.panelThickness)

\* a rational times a whole number
RTimes(p, n) == Rat(p[1] * n, p[2])

\* C29: the skid pattern expressions agree with the emitted geometry:
\* pattern_count and skid_count equal the number of skid boxes (SKID,
\* SKID_PATTERN_1, ...), pattern_spacing equals the X offset between every two
\* consecutive skid boxes, and pattern_spacing * (skid_count - 1) =
\* internal_width - skid_width.
C29_PatternExpressionsMatchSkids ==
    gen.op = "NXGenerator" =>
        LET skids == SkidBoxes(gen)
            n == Len(skids)
            spacing == MapGet(gen.expressions, "pattern_spacing")
        IN /\ MapGet(gen.expressions, "pattern_count") = RInt(n)
           /\ MapGet(gen.expressions, "skid_count") = RInt(n)
           /\ \A k \in DOMAIN skids :
                 skids[k].name = IF k = 1 THEN "SKID"
                                 ELSE "SKID_PATTERN_" \o ToString(k - 1)
           /\ \A k \in 1..(n - 1) :
                 /\ RSub(skids[k + 1].point1.x, skids[k].point1.x) = spacing
                 /\ RSub(skids[k + 1].point2.x, skids[k].point2.x) = spacing
           /\ RTimes(spacing, n - 1)
                = RSub(MapGet(gen.expressions, "internal_width"),
                       MapGet(gen.expressions, "skid_width"))

\* four or more skids at a spacing that is not a whole number of sixteenths
\* and less than the table's maximum spacing
C29_Witness ==
    /\ gen.op = "NXGenerator"
    /\ Len(SkidBoxes(gen)) >= 4
    /\ MapGet(gen.expressions, "pattern_spacing")[2] > 1
    /\ RLt(MapGet(gen.expressions, "pattern_spacing"),
           MapGet(gen.expressions, "skid_max_spacing"))

----------------------------------------------------------------------------
(* Call-sequence specification: one generator is constructed and then its   *)
(* public methods are called in any order.                                  *)

\* getBoxes(): the boxes array itself
getBoxes(self) == self.boxes

\* getExpressions(): the expressions map itself
getExpressions(self) == self.expressions

\* getPanelSpliceLayouts(): the array itself
getPanelSpliceLayouts(self) == self.panelSpliceLayouts

\* getPanelCleatLayouts(): the array itself
getPanelCleatLayouts(self) == self.panelCleatLayouts

\* mutant: generateBOM runs calculate() again before it reads the instance
AfterCall_recalculated(self, method) ==
    IF method = "generateBOM" THEN calculate(self) ELSE self

\* the instance after a call of one of the six methods: lines 834-1064 assign
\* to no field of this and change no array or map it holds (the floorboard
\* layout that exportNXExpressions and generateBOM sort and adjust is built
\* anew by getFloorboardLayout on every call)
AfterCall(self, method) == self

MaxCalls == 3

CallConfigs ==
    {[product |-> [length |-> l, width |-> In(40), height |-> In(45), weight |-> 800],
      clearances |-> [side |-> In(2), end |-> In(2), top |-> In(3)],
      materials |-> [panelThickness |-> Eighths(6), allow3x4Lumber |-> FALSE,
                     availableLumber |-> Undefined]] :
        l \in {In(30), In(135) + Eighths(3)}}

InitCalls ==
    /\ config \in CallConfigs
    /\ gen = Null
    /\ floor = Null
    /\ panel = Null
    /\ splice = Null
    /\ cleat = Null
    /\ instances = <<>>
    /\ studio = Null
    /\ call = [op |-> "calls", log |-> <<>>, now |-> 0]

\* one call of a method on the constructed generator, its result logged
Called(method, result, now) ==
    /\ gen # Null
    /\ Len(call.log) < MaxCalls
    /\ call' = [op |-> "calls",
                log |-> Append(call.log, [method |-> method, result |-> result]),
                now |-> now]
    /\ gen' = AfterCall(gen, method)
    /\ UNCHANGED <<panel, splice, cleat, config, floor, instances, studio>>

GetBoxes == gen # Null /\ Called("getBoxes", getBoxes(gen), call.now)

GetExpressions == gen # Null /\ Called("getExpressions", getExpressions(gen), call.now)

GetPanelSpliceLayouts ==
    gen # Null /\ Called("getPanelSpliceLayouts", getPanelSpliceLayouts(gen), call.now)

GetPanelCleatLayouts ==
    gen # Null /\ Called("getPanelCleatLayouts", getPanelCleatLayouts(gen), call.now)

\* exportNXExpressions() when the clock reads now; the clock never runs
\* backwards
CallExportNXExpressions ==
    /\ gen # Null
    /\ \E now \in call.now..MaxClock :
          Called("exportNXExpressions", exportNXExpressions(gen, now), now)

CallGenerateBOM == gen # Null /\ Called("generateBOM", generateBOM(gen), call.now)

NextCalls ==
    \/ Construct
    \/ GetBoxes
    \/ GetExpressions
    \/ GetPanelSpliceLayouts
    \/ GetPanelCleatLayouts
    \/ CallExportNXExpressions
    \/ CallGenerateBOM

SpecCalls == InitCalls /\ [][NextCalls]_vars

----------------------------------------------------------------------------
(* Claims about the call sequences (SpecCalls) *)

\* the results the calls of a method have returned so far, in order
ResultsOf(log, method) ==
    LET calls == SelectSeq(log, LAMBDA c : c.method = method)
    IN [i \in DOMAIN calls |-> calls[i].result]

====
